---- MODULE Spec2Model ----
(***************************************************************************)
(* Model of theia::FeatureExtractorAndMatcher                              *)
(* (src/TheiaSfM/src/theia/sfm/feature_extractor_and_matcher.cc).          *)
(*                                                                         *)
(* The main thread registers images, priors and masks, then runs           *)
(* ExtractAndMatchFeatures: it submits one ProcessImage task per image     *)
(* whose file exists to a thread pool, joins the pool, calls the matcher   *)
(* and builds the output vector.  Every ProcessImage task is a process     *)
(* whose steps are the shared accesses and external calls of the code.     *)
(***************************************************************************)
EXTENDS Integers, Sequences, FiniteSets, TLC

\* ------------------------------------------------------------------ bounds
MaxImages == 2
MaxThreads == 2
MaxCorrespondences == 2
MaxCalls == 2

\* ---------------------------------------------------------------- constants
\* static const int kNumPyramidLevels = 6;
kNumPyramidLevels == 6

\* ------------------------------------------------------------ value domains
\* A file path is <<directory, filename>>; a path ending in a separator has
\* the empty filename.
Paths == { <<"a", "x.jpg">>, <<"b", "x.jpg">>, <<"a", "">> }
Masks == { <<"a", "m.png">>, <<"a", "small.png">> }
\* The images a mask is registered for.
MaskedPaths == { <<"a", "x.jpg">> }
EmptyPath == <<"", "">>

\* What an image file holds: its dimensions, and the focal length of its EXIF
\* block when it has one.
ImageFile == [width |-> 10, height |-> 5, exif_focal |-> 9]

\* What a mask file holds: the dimensions of the mask image.
MaskFile(mask) ==
    IF mask = <<"a", "m.png">> THEN [width |-> 10, height |-> 5]
                               ELSE [width |-> 10, height |-> 4]

\* CameraIntrinsicsPrior: the focal length and the image size are the fields
\* the pipeline reads or writes; aspect_set stands for the fields only a
\* caller sets.
DefaultPrior ==
    [focal_set |-> FALSE, focal |-> 0, image_width |-> 0, image_height |-> 0,
     aspect_set |-> FALSE]

SuppliedPriors ==
    { [focal_set |-> TRUE, focal |-> 7, image_width |-> 0, image_height |-> 0,
       aspect_set |-> FALSE],
      [focal_set |-> FALSE, focal |-> 0, image_width |-> 0, image_height |-> 0,
       aspect_set |-> TRUE] }

Max(a, b) == IF a >= b THEN a ELSE b
Min(a, b) == IF a <= b THEN a ELSE b

\* ------------------------------------------------------------------ state
VARIABLES
    options,           \* options_: only_calibrated_views, match_out_of_core, num_threads
    image_filepaths,   \* image_filepaths_: the registration list
    intrinsics_map,    \* intrinsics_: path -> prior (a partial map)
    image_masks,       \* image_masks_: path -> mask path (a partial map)
    phase,             \* position of the main thread
    next_i,            \* loop index of the submission loop
    pc,                \* position of every ProcessImage task
    local,             \* locals of every ProcessImage task
    intrinsics_mutex,  \* holder of intrinsics_mutex_ (0: free)
    matcher_mutex,     \* holder of matcher_mutex_ (0: free)
    matcher_images,    \* what the tasks handed to matcher_->AddImage
    match_input,       \* what matcher_->MatchImages saw
    out_intrinsics,    \* *intrinsics, the output vector
    abort_reason,      \* which CHECK ended the process ("" while alive)
    file_exists,       \* file system: image path -> exists?   ("?" until read)
    cache_exists,      \* file system: feature file -> exists? ("?" until read)
    exif_data,         \* what the image file holds for the EXIF reader
    add_calls,         \* history: the AddImage calls made, in order
    last_mask_call,    \* history: the last AddMaskForFeaturesExtraction call
    est,               \* EstimateTwoViewInfo: the caller's arguments and outputs
    cut,               \* a NormalizedGraphCut object and its caller's outputs
    recon,             \* a Reconstruction, a subset taken from it, the last call
    extraction,        \* a call of ExtractFeatures: what was detected, what is left
    fisheye            \* a call of GetSubsetFromOptimizeIntrinsicsType

vars == << options, image_filepaths, intrinsics_map, image_masks, phase, next_i,
           pc, local, intrinsics_mutex, matcher_mutex, matcher_images,
           match_input, out_intrinsics, abort_reason, file_exists, cache_exists,
           exif_data, add_calls, last_mask_call, est, cut,
           recon, extraction, fisheye >>

Tasks == 1..Len(image_filepaths)

\* Positions of a task at which it is executing on a worker thread.
RunningPcs == { "read", "exif", "lock_intrinsics", "write", "policy", "cache",
                "extract", "lock_matcher", "add" }

NumRunning == Cardinality({ j \in DOMAIN pc : pc[j] \in RunningPcs })

\* ---------------------------------------------------------------- helpers
\* theia FindWithDefault on a std::unordered_map.
FindWithDefault(m, key, default) == IF key \in DOMAIN m THEN m[key] ELSE default

\* std::unordered_map::operator[] followed by assignment.
MapPut(m, key, value) ==
    [k \in (DOMAIN m) \cup {key} |-> IF k = key THEN value ELSE m[k]]

\* The directory is kept, and the filename dropped.
DirectoryOf(path) == path[1]

\* GetFilenameFromFilepath(path, true, &filename): the filename with the
\* directory stripped; false when no filename is left.
FilenameOf(path) == path[2]
HasFilename(path) == FilenameOf(path) # ""

\* output_dir + image_filename + ".features"
FeatureFilepath(image_filename) == << "cache/", image_filename, ".features" >>

FeatureFilepaths == { FeatureFilepath(FilenameOf(p)) : p \in Paths }

InitialLocal ==
    [intrinsics |-> DefaultPrior, mask_filepath |-> EmptyPath, features |-> "none",
     cache_hit |-> FALSE]

\* ----------------------------------------------- EstimateTwoViewInfo: values
\* The priors a caller passes to EstimateTwoViewInfo: the focal length set or
\* not, the image size known or not.
EstimatePriors ==
    { [focal_set |-> fs, focal |-> IF fs THEN 7 ELSE 0,
       image_width |-> IF sized THEN ImageFile.width ELSE 0,
       image_height |-> IF sized THEN ImageFile.height ELSE 0,
       aspect_set |-> FALSE] : fs \in BOOLEAN, sized \in BOOLEAN }
    \ { DefaultPrior }

\* The correspondences between two images, by the pixel positions of the
\* two features: the k-th matches a corner of image 1 with the opposite
\* corner of image 2.
FeatureCorrespondence(k) ==
    IF k % 2 = 1 THEN [feature1 |-> <<1, 1>>, feature2 |-> <<8, 4>>]
                 ELSE [feature1 |-> <<8, 4>>, feature2 |-> <<1, 1>>]

CorrespondenceLists ==
    { [k \in 1..n |-> FeatureCorrespondence(k)] : n \in 0..MaxCorrespondences }

\* Rotation matrices (rows): the identity and a quarter turn about the z axis.
IdentityRotation == << <<1, 0, 0>>, <<0, 1, 0>>, <<0, 0, 1>> >>
QuarterTurn == << <<0, -1, 0>>, <<1, 0, 0>>, <<0, 0, 1>> >>

\* Eigen::AngleAxisd(rotation): angle() * axis(), the angle in degrees here.
AngleAxis(rotation) ==
    IF rotation = IdentityRotation THEN <<0, 0, 0>> ELSE <<0, 0, 90>>

\* Lists of distinct indices into n correspondences (0-based, as a std::vector
\* is indexed), in any order.
RECURSIVE IndexLists(_, _)
IndexLists(indices, len) ==
    IF len = 0 THEN { << >> }
    ELSE { <<i>> \o rest : i \in indices,
                           rest \in IndexLists(indices, len - 1) }

Range(seq) == { seq[k] : k \in DOMAIN seq }

InlierLists(n) ==
    { l \in UNION { IndexLists(0..(n - 1), len) : len \in 0..n } :
         Cardinality(Range(l)) = Len(l) }

\* What EstimateRelativePose (calibrated) or EstimateUncalibratedRelativePose
\* hands back for n correspondences: failure, or a relative pose and a
\* RansacSummary with the inliers.
SolverOutcomes(branch, n) ==
    LET poses == IF branch = "calibrated"
                 THEN { [rotation |-> r, position |-> <<1, 0, 0>>] :
                           r \in {IdentityRotation, QuarterTurn} }
                 ELSE { [rotation |-> r, position |-> <<1, 0, 0>>,
                         focal_length1 |-> 3, focal_length2 |-> 4] :
                           r \in {IdentityRotation, QuarterTurn} }
    IN  { [ok |-> FALSE, relative_pose |-> pose, inliers |-> << >>] :
             pose \in { CHOOSE q \in poses : TRUE } }
        \cup { [ok |-> TRUE, relative_pose |-> pose, inliers |-> inl] :
                  pose \in poses, inl \in InlierLists(n) }

\* TwoViewInfo objects a caller may pass in: a fresh one, or one that holds
\* an earlier result.
CallerTwoViewInfos ==
    { [focal_length_1 |-> 0, focal_length_2 |-> 0, position_2 |-> <<0, 0, 0>>,
       rotation_2 |-> <<0, 0, 0>>, num_verified_matches |-> 0,
       visibility_score |-> 1],
      [focal_length_1 |-> 5, focal_length_2 |-> 5, position_2 |-> <<0, 1, 0>>,
       rotation_2 |-> <<0, 0, 90>>, num_verified_matches |-> 2,
       visibility_score |-> 2] }

\* Contents of the caller's inlier vector before a call.
CallerInlierVectors == { << >>, <<0>>, <<1, 0>> }

\* EstimateTwoViewInfoOptions: the pixel budget of the Sampson error.
EstimateOptions == [max_sampson_error_pixels |-> 6]

\* The caller's objects before the first call.
IdleEst ==
    [calls |-> 0,
     intrinsics1 |-> DefaultPrior, intrinsics2 |-> DefaultPrior,
     correspondences |-> << >>,
     branch |-> "none",
     normalized |-> << >>, error_thresh |-> <<0, 1>>,
     solver |-> [ok |-> FALSE],
     success |-> FALSE,
     written |-> {},
     before |-> [twoview_info |-> CHOOSE t \in CallerTwoViewInfos : TRUE,
                 inlier_indices |-> << >>],
     twoview_info |-> CHOOSE t \in CallerTwoViewInfos : TRUE,
     inlier_indices |-> << >>]

\* No AddMaskForFeaturesExtraction call has been made yet.
NoMaskCall == [path |-> EmptyPath, mask |-> EmptyPath]

\* ------------------------------------------- NormalizedGraphCut: the values
\* Options::num_cuts_to_test of a default-constructed Options.
kDefaultNumCutsToTest == 20

\* The values of Options::num_cuts_to_test a caller configures.
CutOptionValues == { 1, 10, kDefaultNumCutsToTest }

\* best_cost before any candidate was evaluated (1e12): larger than the cost
\* of any cut, which is at most 2.
kInitialBestCost == "1e12"

\* A NormalizedGraphCut<int> constructed with the given options, and a caller
\* that has declared two empty output sets and made no call yet.
ConstructedCut(num_cuts_to_test) ==
    [options |-> [num_cuts_to_test |-> num_cuts_to_test],
     node_to_index_map |-> << >>,
     calls |-> 0,
     edges |-> {},
     result |-> "none",
     y |-> << >>,
     cut_values_tested |-> << >>,
     before |-> [subgraph1 |-> {}, subgraph2 |-> {}, node_to_index_map |-> << >>],
     subgraph1 |-> {},
     subgraph2 |-> {},
     cost |-> kInitialBestCost]

IdleCut == ConstructedCut(kDefaultNumCutsToTest)

\* ------------------------------------------------- Reconstruction: the values
\* kInvalidViewId, kInvalidTrackId, kInvalidCameraIntrinsicsGroupId: values no
\* view, track or group ever gets as its id.
kInvalidViewId == -1
kInvalidTrackId == -1
kInvalidCameraIntrinsicsGroupId == -1

\* The views and tracks a Reconstruction is given here.
MaxViews == 2
MaxTracks == 2

\* view_names and features of the tests.
view_names == { "1", "2", "3" }
features == { <<1, 1>>, <<2, 2>> }

\* Reconstruction reconstruction; an object with no views, tracks or groups.
EmptyReconstruction ==
    [view_name_to_id |-> << >>,
     views |-> << >>,
     tracks |-> << >>,
     view_id_to_camera_intrinsics_group_id |-> << >>,
     camera_intrinsics_groups |-> << >>,
     next_view_id |-> 0,
     next_track_id |-> 0,
     next_camera_intrinsics_group_id |-> 0]

\* No call has been made on either object.
NoReconCall ==
    [op |-> "none", object |-> "reconstruction", name |-> "", view_id |-> kInvalidViewId,
     track_id |-> kInvalidTrackId, feature |-> << >>, views_in_subset |-> {},
     returned_id |-> kInvalidViewId, returned |-> FALSE, first_removal |-> FALSE,
     before |-> EmptyReconstruction]

IdleRecon ==
    [reconstruction |-> EmptyReconstruction,
     subset |-> EmptyReconstruction,
     subset_taken |-> FALSE,
     views_in_subset |-> {},
     subset_removals |-> {},
     added_names |-> {},
     last |-> NoReconCall]

\* ---------------------------------------------- ExtractFeatures: the values
\* The keypoints and descriptors one detection yields.
MaxFeatures == 3

\* kMaskThreshold, 0.5, as << numerator, denominator >>.
kMaskThreshold == << 1, 2 >>

\* Positions of keypoints, in half pixels: (0, 0), (0.5, 0), (0.5, 0.5) and
\* (1, 1) of an image of 2 by 2 pixels.
KeypointPositions == { <<0, 0>>, <<1, 0>>, <<1, 1>>, <<2, 2>> }

\* What DetectAndExtractDescriptors leaves in the two vectors: keypoint k and
\* the descriptor computed for it, which is told apart by the number k.
Detections ==
    UNION { { [keypoints |-> kp, descriptors |-> [k \in 1..n |-> k]] :
              kp \in [1..n -> KeypointPositions] } : n \in 0..MaxFeatures }

\* A grayscale mask: white, black, the right column white, one pixel white,
\* and a white mask that has not the size of the image.
GrayscaleMask(width, height, white) ==
    [width |-> width, height |-> height,
     pixels |-> [x \in 0..(width - 1), y \in 0..(height - 1) |->
                   IF <<x, y>> \in white THEN 1 ELSE 0]]

ImageMasks ==
    { GrayscaleMask(2, 2, { <<0, 0>>, <<1, 0>>, <<0, 1>>, <<1, 1>> }),
      GrayscaleMask(2, 2, { }),
      GrayscaleMask(2, 2, { <<1, 0>>, <<1, 1>> }),
      GrayscaleMask(2, 2, { <<1, 1>> }),
      GrayscaleMask(2, 1, { <<0, 0>>, <<1, 0>> }) }

\* imagemask_filepath.size() == 0.
NoImageMask == [width |-> 0, height |-> 0, pixels |-> << >>]

\* The image of the call.
ExtractedImage == [width |-> 2, height |-> 2]

\* The arguments of a call that has not been made yet.
ExtractionInputs ==
    { [called |-> FALSE,
       max_num_features |-> cap,
       imagemask |-> mask,
       detect_ok |-> ok,
       detected |-> d,
       result |-> "none",
       keypoints |-> << >>,
       descriptors |-> << >>] :
      cap \in 0..MaxFeatures, mask \in ImageMasks \cup {NoImageMask},
      ok \in BOOLEAN, d \in Detections }

IdleExtraction ==
    [called |-> FALSE, max_num_features |-> 0, imagemask |-> NoImageMask,
     detect_ok |-> FALSE, detected |-> [keypoints |-> << >>, descriptors |-> << >>],
     result |-> "none", keypoints |-> << >>, descriptors |-> << >>]

\* ------------------------------------------------ FisheyeCameraModel: values
\* enum class OptimizeIntrinsicsType, one bit per group of parameters.
OptimizeIntrinsicsType ==
    [NONE |-> 0, FOCAL_LENGTH |-> 1, ASPECT_RATIO |-> 2, SKEW |-> 4,
     PRINCIPAL_POINTS |-> 8, RADIAL_DISTORTION |-> 16,
     TANGENTIAL_DISTORTION |-> 32, ALL |-> 63]

\* enum InternalParametersIndex of FisheyeCameraModel, and its size.
InternalParametersIndex ==
    [FOCAL_LENGTH |-> 0, ASPECT_RATIO |-> 1, SKEW |-> 2,
     PRINCIPAL_POINT_X |-> 3, PRINCIPAL_POINT_Y |-> 4,
     RADIAL_DISTORTION_1 |-> 5, RADIAL_DISTORTION_2 |-> 6,
     RADIAL_DISTORTION_3 |-> 7, RADIAL_DISTORTION_4 |-> 8]

kIntrinsicsSize == 9

IdleFisheye ==
    [called |-> FALSE, intrinsics_to_optimize |-> OptimizeIntrinsicsType.NONE,
     constant_intrinsics |-> << >>]

\* ------------------------------------------------------------------- Init
\* The members of a FeatureExtractorAndMatcher after construction, and the
\* file system before anything was read from it.
Constructed ==
    /\ image_filepaths = << >>
    /\ intrinsics_map = [p \in {} |-> DefaultPrior]
    /\ image_masks = [p \in {} |-> EmptyPath]
    /\ phase = "setup"
    /\ next_i = 1
    /\ pc = [i \in {} |-> "unsubmitted"]
    /\ local = [i \in {} |-> InitialLocal]
    /\ intrinsics_mutex = 0
    /\ matcher_mutex = 0
    /\ matcher_images = {}
    /\ match_input = {}
    /\ out_intrinsics = << >>
    /\ abort_reason = ""
    /\ file_exists = [p \in Paths |-> "?"]
    /\ cache_exists = [f \in FeatureFilepaths |-> "?"]
    /\ exif_data = [p \in Paths |-> "?"]
    /\ add_calls = << >>

Init ==
    /\ options \in [only_calibrated_views : BOOLEAN,
                    match_out_of_core : BOOLEAN,
                    num_threads : 1..MaxThreads]
    /\ Constructed
    /\ last_mask_call = NoMaskCall
    /\ est = IdleEst
    /\ cut = IdleCut
    /\ recon = IdleRecon
    /\ extraction = IdleExtraction
    /\ fisheye = IdleFisheye

Alive == phase \notin {"setup", "aborted"}

\* A CHECK that fails (glog): the process ends.
Abort(reason) ==
    /\ phase' = "aborted"
    /\ abort_reason' = reason

\* ------------------------------------------------------------ registration
\* AddImage(image_filepath), lines 144-147.
AppendImageOnce(list, path) ==
    IF \E k \in 1..Len(list) : list[k] = path THEN list ELSE Append(list, path)

AppendImage(list, path) == Append(list, path)

AddImage(path) ==
    /\ phase = "setup"
    /\ Len(image_filepaths) < MaxImages
    /\ image_filepaths' = AppendImage(image_filepaths, path)
    /\ add_calls' = Append(add_calls,
          [path |-> path, has_prior |-> FALSE, prior |-> DefaultPrior])
    /\ UNCHANGED << options, intrinsics_map, image_masks, phase, next_i, pc,
                    local, intrinsics_mutex, matcher_mutex, matcher_images,
                    match_input, out_intrinsics, abort_reason, file_exists,
                    cache_exists, exif_data >>
    /\ UNCHANGED << last_mask_call, est, cut, recon, extraction, fisheye >>

\* AddImage(image_filepath, intrinsics), lines 149-157.
StorePriorIfAbsent(m, path, prior) ==
    IF path \in DOMAIN m THEN m ELSE MapPut(m, path, prior)

StorePrior(m, path, prior) == MapPut(m, path, prior)

AddImageWithPrior(path, prior) ==
    /\ phase = "setup"
    /\ Len(image_filepaths) < MaxImages
    /\ image_filepaths' = AppendImage(image_filepaths, path)
    /\ intrinsics_map' = StorePrior(intrinsics_map, path, prior)
    /\ add_calls' = Append(add_calls,
          [path |-> path, has_prior |-> TRUE, prior |-> prior])
    /\ UNCHANGED << options, image_masks, phase, next_i, pc, local,
                    intrinsics_mutex, matcher_mutex, matcher_images,
                    match_input, out_intrinsics, abort_reason, file_exists,
                    cache_exists, exif_data >>
    /\ UNCHANGED << last_mask_call, est, cut, recon, extraction, fisheye >>

\* AddMaskForFeaturesExtraction(image_filepath, mask_filepath), lines 159-165.
StoreMaskIfAbsent(m, path, mask) ==
    IF path \in DOMAIN m THEN m ELSE MapPut(m, path, mask)

StoreMask(m, path, mask) == MapPut(m, path, mask)

AddMaskForFeaturesExtraction(path, mask) ==
    /\ phase = "setup"
    /\ image_masks' = StoreMask(image_masks, path, mask)
    /\ last_mask_call' = [path |-> path, mask |-> mask]
    /\ UNCHANGED << est, cut, recon, extraction, fisheye >>
    /\ UNCHANGED << options, image_filepaths, intrinsics_map, phase, next_i, pc,
                    local, intrinsics_mutex, matcher_mutex, matcher_images,
                    match_input, out_intrinsics, abort_reason, file_exists,
                    cache_exists, exif_data, add_calls >>

\* ------------------------------------------- ExtractAndMatchFeatures (main)
\* Lines 196-197: the size of the worker pool.
NumThreadsIsImageCount == Len(image_filepaths)

NumThreads == Min(options.num_threads, Len(image_filepaths))

\* Lines 191-198: resize the output vector and create the thread pool.
StartRun ==
    /\ phase = "setup"
    /\ phase' = "submitting"
    /\ out_intrinsics' = [i \in Tasks |-> DefaultPrior]
    /\ pc' = [i \in Tasks |-> "unsubmitted"]
    /\ local' = [i \in Tasks |-> InitialLocal]
    /\ next_i' = 1
    /\ UNCHANGED << options, image_filepaths, intrinsics_map, image_masks,
                    intrinsics_mutex, matcher_mutex, matcher_images,
                    match_input, abort_reason, file_exists, cache_exists,
                    exif_data, add_calls >>
    /\ UNCHANGED << last_mask_call, est, cut, recon, extraction, fisheye >>

\* Lines 199-206: one iteration of the submission loop.
SubmitStep ==
    /\ phase = "submitting"
    /\ next_i <= Len(image_filepaths)
    /\ LET path == image_filepaths[next_i] IN
       \E e \in {"yes", "no"} :
          /\ file_exists[path] \in {"?", e}
          /\ file_exists' = [file_exists EXCEPT ![path] = e]
          /\ pc' = [pc EXCEPT
                ![next_i] = IF e = "yes" THEN "queued" ELSE "skipped"]
    /\ next_i' = next_i + 1
    /\ UNCHANGED << options, image_filepaths, intrinsics_map, image_masks, phase,
                    local, intrinsics_mutex, matcher_mutex, matcher_images,
                    match_input, out_intrinsics, abort_reason, cache_exists,
                    exif_data, add_calls >>
    /\ UNCHANGED << last_mask_call, est, cut, recon, extraction, fisheye >>

FinishedPcs == {"skipped", "excluded", "done"}

\* Lines 207-208: thread_pool.reset(nullptr) returns once every submitted task
\* has run to its end.
AllTasksFinished == \A i \in DOMAIN pc : pc[i] \in FinishedPcs

JoinPoolWithoutWaiting ==
    /\ phase = "submitting"
    /\ next_i > Len(image_filepaths)
    /\ phase' = "joined"
    /\ UNCHANGED << options, image_filepaths, intrinsics_map, image_masks, next_i,
                    pc, local, intrinsics_mutex, matcher_mutex, matcher_images,
                    match_input, out_intrinsics, abort_reason, file_exists,
                    cache_exists, exif_data, add_calls >>
    /\ UNCHANGED << last_mask_call, est, cut, recon, extraction, fisheye >>

JoinPool ==
    /\ phase = "submitting"
    /\ next_i > Len(image_filepaths)
    /\ AllTasksFinished
    /\ phase' = "joined"
    /\ UNCHANGED << options, image_filepaths, intrinsics_map, image_masks, next_i,
                    pc, local, intrinsics_mutex, matcher_mutex, matcher_images,
                    match_input, out_intrinsics, abort_reason, file_exists,
                    cache_exists, exif_data, add_calls >>
    /\ UNCHANGED << last_mask_call, est, cut, recon, extraction, fisheye >>

\* Lines 212-214: matcher_->MatchImages(matches).
MatchImages ==
    /\ phase = "joined"
    /\ phase' = "matched"
    /\ match_input' = matcher_images
    /\ UNCHANGED << options, image_filepaths, intrinsics_map, image_masks, next_i,
                    pc, local, intrinsics_mutex, matcher_mutex, matcher_images,
                    out_intrinsics, abort_reason, file_exists, cache_exists,
                    exif_data, add_calls >>
    /\ UNCHANGED << last_mask_call, est, cut, recon, extraction, fisheye >>

\* Lines 216-219: FindOrDie(intrinsics_, image_filepaths_[i]) for every i.
AllPriorsFound == \A i \in Tasks : image_filepaths[i] \in DOMAIN intrinsics_map

BuildOutput ==
    /\ phase = "matched"
    /\ IF AllPriorsFound
         THEN /\ out_intrinsics' =
                    [i \in Tasks |-> intrinsics_map[image_filepaths[i]]]
              /\ phase' = "returned"
              /\ UNCHANGED abort_reason
         ELSE /\ Abort("FindOrDie")
              /\ UNCHANGED out_intrinsics
    /\ UNCHANGED << options, image_filepaths, intrinsics_map, image_masks, next_i,
                    pc, local, intrinsics_mutex, matcher_mutex, matcher_images,
                    match_input, file_exists, cache_exists, exif_data, add_calls >>
    /\ UNCHANGED << last_mask_call, est, cut, recon, extraction, fisheye >>

\* ------------------------------------------------------------ ProcessImage
\* A worker thread of the pool takes the oldest queued task when it is free.
StartTask(i) ==
    /\ Alive
    /\ pc[i] = "queued"
    /\ NumRunning < NumThreads
    /\ \A j \in DOMAIN pc : j < i => pc[j] # "queued"
    /\ pc' = [pc EXCEPT ![i] = "read"]
    /\ UNCHANGED << options, image_filepaths, intrinsics_map, image_masks, phase,
                    next_i, local, intrinsics_mutex, matcher_mutex,
                    matcher_images, match_input, out_intrinsics, abort_reason,
                    file_exists, cache_exists, exif_data, add_calls >>
    /\ UNCHANGED << last_mask_call, est, cut, recon, extraction, fisheye >>

\* The tasks that are inside intrinsics_[image_filepath] = intrinsics
\* (line 249) right now.
Writers == { j \in DOMAIN pc : pc[j] = "write" }

\* Lines 226-227: FindWithDefault(intrinsics_, image_filepath, ...) is made
\* without intrinsics_mutex_.  With no write of the map in progress it returns
\* the stored entry.  Concurrent with a write it is a data race: a write that
\* inserts a new key may rehash the table, so the lookup may also miss (the
\* default is returned) or touch freed memory (the process dies); a write to
\* the key being read may also show the value being written.
RacyReads(path) ==
    { FindWithDefault(intrinsics_map, path, DefaultPrior) }
    \cup { DefaultPrior : j \in
             { w \in Writers : image_filepaths[w] \notin DOMAIN intrinsics_map } }
    \cup { local[j].intrinsics : j \in
             { w \in Writers : image_filepaths[w] = path } }

RaceMayCrash ==
    \E w \in Writers : image_filepaths[w] \notin DOMAIN intrinsics_map

\* Lines 223-231: read the stored prior and the mask of the image.
\* Line 234: if (!intrinsics.focal_length.is_set).
NeedsResolution(prior) == ~prior.focal_set

ReadPrior(i) ==
    /\ Alive
    /\ pc[i] = "read"
    /\ LET path == image_filepaths[i] IN
       \/ \E v \in RacyReads(path) :
             /\ local' = [local EXCEPT
                   ![i].intrinsics = v,
                   ![i].mask_filepath = FindWithDefault(image_masks, path, EmptyPath)]
             /\ pc' = [pc EXCEPT
                   ![i] = IF NeedsResolution(v) THEN "exif" ELSE "policy"]
             /\ UNCHANGED << phase, abort_reason >>
       \/ /\ RaceMayCrash
          /\ Abort("data_race")
          /\ UNCHANGED << local, pc >>
    /\ UNCHANGED << options, image_filepaths, intrinsics_map, image_masks, next_i,
                    intrinsics_mutex, matcher_mutex, matcher_images, match_input,
                    out_intrinsics, file_exists, cache_exists, exif_data,
                    add_calls >>
    /\ UNCHANGED << last_mask_call, est, cut, recon, extraction, fisheye >>

\* ExifReader::ExtractEXIFMetadata on a readable image: the image size is
\* always written, the focal length when the EXIF block has one.
ExtractEXIFMetadata(prior, data) ==
    [prior EXCEPT
        !.image_width = ImageFile.width,
        !.image_height = ImageFile.height,
        !.focal_set = IF data = "focal" THEN TRUE ELSE @,
        !.focal = IF data = "focal" THEN ImageFile.exif_focal ELSE @]

\* Lines 239-245: 1.2 * max(image_width, image_height) when EXIF gave no
\* focal length and uncalibrated views are allowed.
MedianViewingAngleFocal(prior) ==
    (12 * Max(prior.image_width, prior.image_height)) \div 10

HeuristicFocal(prior) ==
    IF ~options.only_calibrated_views /\ ~prior.focal_set
      THEN [prior EXCEPT !.focal_set = TRUE,
                         !.focal = MedianViewingAngleFocal(prior)]
      ELSE prior

\* Lines 234-245: CHECK(ExtractEXIFMetadata(...)), then the fallback.
ResolveCalibration(i) ==
    /\ Alive
    /\ pc[i] = "exif"
    /\ LET path == image_filepaths[i] IN
       \E d \in {"unreadable", "no_focal", "focal"} :
          /\ exif_data[path] \in {"?", d}
          /\ exif_data' = [exif_data EXCEPT ![path] = d]
          /\ IF d = "unreadable"
               THEN /\ Abort("ExtractEXIFMetadata")
                    /\ UNCHANGED << local, pc >>
               ELSE /\ local' = [local EXCEPT ![i].intrinsics =
                          HeuristicFocal(ExtractEXIFMetadata(@, d))]
                    /\ pc' = [pc EXCEPT ![i] = "lock_intrinsics"]
                    /\ UNCHANGED << phase, abort_reason >>
    /\ UNCHANGED << options, image_filepaths, intrinsics_map, image_masks, next_i,
                    intrinsics_mutex, matcher_mutex, matcher_images, match_input,
                    out_intrinsics, file_exists, cache_exists, add_calls >>
    /\ UNCHANGED << last_mask_call, est, cut, recon, extraction, fisheye >>

\* std::lock_guard on a std::mutex: the constructor returns once the mutex
\* is free, and the destructor, at the end of the block, frees it.
LockAlwaysGranted(mutex) == TRUE

CanLock(mutex) == mutex = 0

KeepLocked(mutex) == mutex

Unlock(mutex) == 0

\* Line 247: std::lock_guard<std::mutex> lock(intrinsics_mutex_).
LockIntrinsics(i) ==
    /\ Alive
    /\ pc[i] = "lock_intrinsics"
    /\ CanLock(intrinsics_mutex)
    /\ intrinsics_mutex' = i
    /\ pc' = [pc EXCEPT ![i] = "write"]
    /\ UNCHANGED << options, image_filepaths, intrinsics_map, image_masks, phase,
                    next_i, local, matcher_mutex, matcher_images, match_input,
                    out_intrinsics, abort_reason, file_exists, cache_exists,
                    exif_data, add_calls >>
    /\ UNCHANGED << last_mask_call, est, cut, recon, extraction, fisheye >>

\* Line 249: intrinsics_[image_filepath] = intrinsics.
StoreResolvedResetsOnRewrite(m, path, prior) ==
    IF path \in DOMAIN m /\ m[path].image_width # 0
      THEN MapPut(m, path, DefaultPrior)
      ELSE MapPut(m, path, prior)

StoreResolved(m, path, prior) == MapPut(m, path, prior)

\* Lines 248-250: intrinsics_[image_filepath] = intrinsics; the lock is
\* released at the end of the block.
WriteIntrinsics(i) ==
    /\ Alive
    /\ pc[i] = "write"
    /\ intrinsics_map' =
          StoreResolved(intrinsics_map, image_filepaths[i], local[i].intrinsics)
    /\ intrinsics_mutex' = Unlock(intrinsics_mutex)
    /\ pc' = [pc EXCEPT ![i] = "policy"]
    /\ UNCHANGED << options, image_filepaths, image_masks, phase, next_i, local,
                    matcher_mutex, matcher_images, match_input, out_intrinsics,
                    abort_reason, file_exists, cache_exists, exif_data,
                    add_calls >>
    /\ UNCHANGED << last_mask_call, est, cut, recon, extraction, fisheye >>

\* Line 254: the image is skipped when only calibrated views are processed
\* and it has no focal length.
NeverSkippedByPolicy(prior) == FALSE

SkippedByPolicy(prior) == options.only_calibrated_views /\ ~prior.focal_set

\* Lines 252-273: the early exit, then CHECK(GetFilenameFromFilepath(...)).
PolicyAndFilename(i) ==
    /\ Alive
    /\ pc[i] = "policy"
    /\ IF SkippedByPolicy(local[i].intrinsics)
         THEN /\ pc' = [pc EXCEPT ![i] = "excluded"]
              /\ local' = [local EXCEPT ![i] = InitialLocal]
              /\ UNCHANGED << phase, abort_reason >>
         ELSE IF ~HasFilename(image_filepaths[i])
           THEN /\ Abort("GetFilenameFromFilepath")
                /\ UNCHANGED << pc, local >>
           ELSE /\ pc' = [pc EXCEPT ![i] = "cache"]
                /\ UNCHANGED << local, phase, abort_reason >>
    /\ UNCHANGED << options, image_filepaths, intrinsics_map, image_masks, next_i,
                    intrinsics_mutex, matcher_mutex, matcher_images, match_input,
                    out_intrinsics, file_exists, cache_exists, exif_data,
                    add_calls >>
    /\ UNCHANGED << last_mask_call, est, cut, recon, extraction, fisheye >>

\* Lines 276-277: match_out_of_core && FileExists(feature_filepath).
SkipsExtractionWheneverFileExists(out_of_core, exists) == exists

SkipsExtraction(out_of_core, exists) == out_of_core /\ exists

CheckCache(i) ==
    /\ Alive
    /\ pc[i] = "cache"
    /\ LET feature_filepath == FeatureFilepath(FilenameOf(image_filepaths[i])) IN
       \E e \in {"yes", "no"} :
          /\ cache_exists[feature_filepath] \in {"?", e}
          /\ cache_exists' = [cache_exists EXCEPT ![feature_filepath] = e]
          /\ IF SkipsExtraction(options.match_out_of_core, e = "yes")
               THEN /\ local' = [local EXCEPT ![i].cache_hit = TRUE]
                    /\ pc' = [pc EXCEPT ![i] = "lock_matcher"]
               ELSE /\ pc' = [pc EXCEPT ![i] = "extract"]
                    /\ UNCHANGED local
    /\ UNCHANGED << options, image_filepaths, intrinsics_map, image_masks, phase,
                    next_i, intrinsics_mutex, matcher_mutex, matcher_images,
                    match_input, out_intrinsics, abort_reason, file_exists,
                    exif_data, add_calls >>
    /\ UNCHANGED << last_mask_call, est, cut, recon, extraction, fisheye >>

\* Lines 89-98: a mask is read when its path is not empty, and its size is
\* compared with the image's (CHECK).
MaskWidthDiffers(mask_filepath) ==
    /\ mask_filepath # EmptyPath
    /\ MaskFile(mask_filepath).width # ImageFile.width

MaskSizeDiffers(mask_filepath) ==
    /\ mask_filepath # EmptyPath
    /\ \/ MaskFile(mask_filepath).width # ImageFile.width
       \/ MaskFile(mask_filepath).height # ImageFile.height

\* Lines 283-287 and ExtractFeatures (lines 64-126): the extractor fails
\* (keypoints and descriptors are left as the extractor left them), or the
\* mask has another size than the image (CHECK), or the features are
\* filtered and capped.
ExtractFeatures(i) ==
    /\ Alive
    /\ pc[i] = "extract"
    /\ \/ /\ local' = [local EXCEPT ![i].features = "extraction_failed"]
          /\ pc' = [pc EXCEPT ![i] = "lock_matcher"]
          /\ UNCHANGED << phase, abort_reason >>
       \/ /\ MaskSizeDiffers(local[i].mask_filepath)
          /\ Abort("mask_size")
          /\ UNCHANGED << local, pc >>
       \/ /\ ~MaskSizeDiffers(local[i].mask_filepath)
          /\ local' = [local EXCEPT ![i].features = "extracted"]
          /\ pc' = [pc EXCEPT ![i] = "lock_matcher"]
          /\ UNCHANGED << phase, abort_reason >>
    /\ UNCHANGED << options, image_filepaths, intrinsics_map, image_masks, next_i,
                    intrinsics_mutex, matcher_mutex, matcher_images, match_input,
                    out_intrinsics, file_exists, cache_exists, exif_data,
                    add_calls >>
    /\ UNCHANGED << last_mask_call, est, cut, recon, extraction, fisheye >>

\* Lines 278 and 293: std::lock_guard<std::mutex> lock(matcher_mutex_).
LockMatcher(i) ==
    /\ Alive
    /\ pc[i] = "lock_matcher"
    /\ CanLock(matcher_mutex)
    /\ matcher_mutex' = i
    /\ pc' = [pc EXCEPT ![i] = "add"]
    /\ UNCHANGED << options, image_filepaths, intrinsics_map, image_masks, phase,
                    next_i, local, intrinsics_mutex, matcher_images, match_input,
                    out_intrinsics, abort_reason, file_exists, cache_exists,
                    exif_data, add_calls >>
    /\ UNCHANGED << last_mask_call, est, cut, recon, extraction, fisheye >>

\* Lines 279 and 294: matcher_->AddImage(image_filename, intrinsics) on a
\* cache hit, matcher_->AddImage(image_filename, keypoints, descriptors,
\* intrinsics) otherwise; the lock is released on return.
Registration(i) ==
    [task |-> i,
     name |-> FilenameOf(image_filepaths[i]),
     intrinsics |-> local[i].intrinsics,
     features |-> IF local[i].cache_hit THEN "on_disk" ELSE local[i].features]

MatcherAddImage(i) ==
    /\ Alive
    /\ pc[i] = "add"
    /\ matcher_images' = matcher_images \cup { Registration(i) }
    /\ matcher_mutex' = Unlock(matcher_mutex)
    /\ pc' = [pc EXCEPT ![i] = "done"]
    /\ local' = [local EXCEPT ![i] = InitialLocal]
    /\ UNCHANGED << options, image_filepaths, intrinsics_map, image_masks, phase,
                    next_i, intrinsics_mutex, match_input, out_intrinsics,
                    abort_reason, file_exists, cache_exists, exif_data,
                    add_calls >>
    /\ UNCHANGED << last_mask_call, est, cut, recon, extraction, fisheye >>

\* ------------------------------------------------------------ specification
Next ==
    \/ \E p \in Paths : AddImage(p)
    \/ \E p \in Paths, prior \in SuppliedPriors : AddImageWithPrior(p, prior)
    \/ \E p \in MaskedPaths, m \in Masks : AddMaskForFeaturesExtraction(p, m)
    \/ StartRun
    \/ SubmitStep
    \/ JoinPool
    \/ MatchImages
    \/ BuildOutput
    \/ \E i \in DOMAIN pc : StartTask(i)
    \/ \E i \in DOMAIN pc : ReadPrior(i)
    \/ \E i \in DOMAIN pc : ResolveCalibration(i)
    \/ \E i \in DOMAIN pc : LockIntrinsics(i)
    \/ \E i \in DOMAIN pc : WriteIntrinsics(i)
    \/ \E i \in DOMAIN pc : PolicyAndFilename(i)
    \/ \E i \in DOMAIN pc : CheckCache(i)
    \/ \E i \in DOMAIN pc : ExtractFeatures(i)
    \/ \E i \in DOMAIN pc : LockMatcher(i)
    \/ \E i \in DOMAIN pc : MatcherAddImage(i)

Spec == Init /\ [][Next]_vars

\* The steps of a run of ExtractAndMatchFeatures.  The main thread and the
\* worker threads are scheduled by the operating system: a run step that
\* stays enabled is eventually taken.
RunStep ==
    \/ SubmitStep
    \/ JoinPool
    \/ MatchImages
    \/ BuildOutput
    \/ \E i \in DOMAIN pc :
          \/ StartTask(i)
          \/ ReadPrior(i)
          \/ ResolveCalibration(i)
          \/ LockIntrinsics(i)
          \/ WriteIntrinsics(i)
          \/ PolicyAndFilename(i)
          \/ CheckCache(i)
          \/ ExtractFeatures(i)
          \/ LockMatcher(i)
          \/ MatcherAddImage(i)

FairSpec == Spec /\ WF_vars(RunStep)

\* ====================================================== EstimateTwoViewInfo
\* Camera::SetFromCameraIntrinsicsPriors: the focal length of the prior when
\* it is set and a guess from the image size when it is not; the principal
\* point at the image centre.
Camera(prior) ==
    [focal_length |-> IF prior.focal_set THEN prior.focal
                      ELSE Max(1, MedianViewingAngleFocal(prior)),
     principal_point |-> << prior.image_width \div 2, prior.image_height \div 2 >>]

\* Camera::PixelToNormalizedCoordinates followed by hnormalized(): the pixel
\* moved by the principal point and divided by the focal length.  A
\* coordinate is the pair <<numerator, denominator>>.
PixelToNormalizedCoordinates(camera, pixel) ==
    << << pixel[1] - camera.principal_point[1], camera.focal_length >>,
       << pixel[2] - camera.principal_point[2], camera.focal_length >> >>

\* The focal lengths are reset only when neither prior has one.
NeitherFocalLengthSet(prior1, prior2) == ~prior1.focal_set /\ ~prior2.focal_set

\* Line 83: !prior1.focal_length.is_set || !prior2.focal_length.is_set.
SomeFocalLengthUnset(prior1, prior2) == ~prior1.focal_set \/ ~prior2.focal_set

\* NormalizeFeatures, lines 66-100.
NormalizeFeatures(prior1, prior2, correspondences) ==
    LET reset == SomeFocalLengthUnset(prior1, prior2)
        camera1 == IF reset THEN [Camera(prior1) EXCEPT !.focal_length = 1]
                            ELSE Camera(prior1)
        camera2 == IF reset THEN [Camera(prior2) EXCEPT !.focal_length = 1]
                            ELSE Camera(prior2)
    IN  [k \in DOMAIN correspondences |->
           [feature1 |-> PixelToNormalizedCoordinates(
                             camera1, correspondences[k].feature1),
            feature2 |-> PixelToNormalizedCoordinates(
                             camera2, correspondences[k].feature2)]]

\* ComputeResolutionScaledThreshold: the pixel budget scaled by the larger
\* image dimension over 1024, as <<numerator, denominator>>; unscaled when
\* the image size is unknown.
ComputeResolutionScaledThreshold(threshold, prior) ==
    IF prior.image_width = 0 /\ prior.image_height = 0
      THEN << threshold, 1 >>
      ELSE << threshold * Max(prior.image_width, prior.image_height), 1024 >>

\* Grid cell of a coordinate on the finest level of a VisibilityPyramid.
FinestCell(coordinate, extent, cells) ==
    Max(0, Min(cells - 1, (cells * coordinate) \div extent))

RECURSIVE Pow2(_)
Pow2(n) == IF n = 0 THEN 1 ELSE 2 * Pow2(n - 1)

\* VisibilityPyramid::ComputeScore after AddPoint of every point: on level l
\* (2^l by 2^l cells) every cell that holds a point counts 2^l.
RECURSIVE PyramidScore(_, _, _, _)
PyramidScore(points, width, height, level) ==
    IF level = 0 THEN 0
    ELSE LET finest == Pow2(kNumPyramidLevels)
             shift == Pow2(kNumPyramidLevels - level)
             cells == { << FinestCell(p[1], width, finest) \div shift,
                           FinestCell(p[2], height, finest) \div shift >> :
                        p \in points }
         IN  Pow2(level) * Cardinality(cells)
             + PyramidScore(points, width, height, level - 1)

\* ComputeVisibilityScoreOfInliers, lines 103-129.  correspondences[i] is
\* read for the indices of inlier_indices only.
ComputeVisibilityScoreOfInliers(intrinsics1, intrinsics2, correspondences, inlier_indices) ==
    IF \/ intrinsics1.image_width = 0 \/ intrinsics1.image_height = 0
       \/ intrinsics2.image_width = 0 \/ intrinsics2.image_height = 0
      THEN Len(inlier_indices)
      ELSE LET matches == { correspondences[i + 1] :
                              i \in { j \in Range(inlier_indices) :
                                        j + 1 \in DOMAIN correspondences } }
           IN  PyramidScore({ m.feature1 : m \in matches },
                            intrinsics1.image_width, intrinsics1.image_height,
                            kNumPyramidLevels)
               + PyramidScore({ m.feature2 : m \in matches },
                              intrinsics2.image_width, intrinsics2.image_height,
                              kNumPyramidLevels)

\* Assignments to fields of *twoview_info, in program order, as
\* <<field, value>>.
ApplyWrites(info, writes) ==
    [f \in DOMAIN info |->
       IF \E k \in DOMAIN writes : writes[k][1] = f
         THEN writes[CHOOSE k \in DOMAIN writes :
                        /\ writes[k][1] = f
                        /\ \A l \in DOMAIN writes : writes[l][1] = f => l <= k][2]
         ELSE info[f]]

WrittenFields(writes) == { writes[k][1] : k \in DOMAIN writes }

\* Lines 182 and 242: num_verified_matches = summary.inliers.size().
NumVerifiedCountsAll(correspondences, inliers) == Len(correspondences)

NumVerifiedMatches(correspondences, inliers) == Len(inliers)

\* Lines 180-181: the focal lengths of the two priors.
CalibratedFirstFocalOnly(intrinsics1, intrinsics2) ==
    << << "focal_length_1", intrinsics1.focal >> >>

CalibratedFocalWrites(intrinsics1, intrinsics2) ==
    << << "focal_length_1", intrinsics1.focal >>,
       << "focal_length_2", intrinsics2.focal >> >>

\* Lines 238-239: the focal lengths the solver recovered.
UncalibratedFocalWrites(relative_pose) ==
    << << "focal_length_1", relative_pose.focal_length1 >>,
       << "focal_length_2", relative_pose.focal_length2 >> >>

\* EstimateTwoViewInfoCalibrated, lines 131-189.  info and inliers are the
\* caller's *twoview_info and *inlier_indices as the function finds them.
EstimateTwoViewInfoCalibrated(intrinsics1, intrinsics2, correspondences, solver, info, inliers) ==
    LET t1 == ComputeResolutionScaledThreshold(
                  EstimateOptions.max_sampson_error_pixels, intrinsics1)
        t2 == ComputeResolutionScaledThreshold(
                  EstimateOptions.max_sampson_error_pixels, intrinsics2)
        inputs ==
          [normalized |-> NormalizeFeatures(intrinsics1, intrinsics2,
                                            correspondences),
           error_thresh |-> << t1[1] * t2[1],
                               t1[2] * t2[2] * intrinsics1.focal
                                             * intrinsics2.focal >>]
        writes ==
          << << "rotation_2", AngleAxis(solver.relative_pose.rotation) >>,
             << "position_2", solver.relative_pose.position >> >>
          \o CalibratedFocalWrites(intrinsics1, intrinsics2)
          \o << << "num_verified_matches",
                   NumVerifiedMatches(correspondences, solver.inliers) >>,
                << "visibility_score",
                   ComputeVisibilityScoreOfInliers(
                       intrinsics1, intrinsics2, correspondences, inliers) >> >>
    IN  IF ~solver.ok
          THEN [success |-> FALSE, inputs |-> inputs, written |-> {},
                twoview_info |-> info, inlier_indices |-> inliers]
          ELSE [success |-> TRUE, inputs |-> inputs,
                written |-> WrittenFields(writes),
                twoview_info |-> ApplyWrites(info, writes),
                inlier_indices |-> solver.inliers]

\* EstimateTwoViewInfoUncalibrated, lines 191-248.
EstimateTwoViewInfoUncalibrated(intrinsics1, intrinsics2, correspondences, solver, info, inliers) ==
    LET t1 == ComputeResolutionScaledThreshold(
                  EstimateOptions.max_sampson_error_pixels, intrinsics1)
        t2 == ComputeResolutionScaledThreshold(
                  EstimateOptions.max_sampson_error_pixels, intrinsics2)
        inputs ==
          [normalized |-> NormalizeFeatures(intrinsics1, intrinsics2,
                                            correspondences),
           error_thresh |-> << t1[1] * t2[1], t1[2] * t2[2] >>]
        writes ==
          << << "rotation_2", AngleAxis(solver.relative_pose.rotation) >>,
             << "position_2", solver.relative_pose.position >> >>
          \o UncalibratedFocalWrites(solver.relative_pose)
          \o << << "num_verified_matches",
                   NumVerifiedMatches(correspondences, solver.inliers) >>,
                << "visibility_score",
                   ComputeVisibilityScoreOfInliers(
                       intrinsics1, intrinsics2, correspondences, inliers) >> >>
    IN  IF ~solver.ok
          THEN [success |-> FALSE, inputs |-> inputs, written |-> {},
                twoview_info |-> info, inlier_indices |-> inliers]
          ELSE [success |-> TRUE, inputs |-> inputs,
                written |-> WrittenFields(writes),
                twoview_info |-> ApplyWrites(info, writes),
                inlier_indices |-> solver.inliers]

\* Line 260: CHECK_NOTNULL(inlier_indices)->clear().
KeepInliers(inliers) == inliers

ClearInliers(inliers) == << >>

\* Lines 263-264, 273-274 and 285: which solver the priors select.
EitherCalibrated(intrinsics1, intrinsics2) ==
    intrinsics1.focal_set \/ intrinsics2.focal_set

BothCalibrated(intrinsics1, intrinsics2) ==
    intrinsics1.focal_set /\ intrinsics2.focal_set

Branch(intrinsics1, intrinsics2) ==
    IF BothCalibrated(intrinsics1, intrinsics2) THEN "calibrated"
                                                ELSE "uncalibrated"

\* EstimateTwoViewInfo, lines 252-292, as a function of its arguments, of
\* what the solver hands back and of the contents of the two output objects.
EstimateTwoViewInfoResult(intrinsics1, intrinsics2, correspondences, solver, info, inliers) ==
    IF Branch(intrinsics1, intrinsics2) = "calibrated"
      THEN EstimateTwoViewInfoCalibrated(
               intrinsics1, intrinsics2, correspondences, solver, info,
               ClearInliers(inliers))
      ELSE EstimateTwoViewInfoUncalibrated(
               intrinsics1, intrinsics2, correspondences, solver, info,
               ClearInliers(inliers))

\* A call of EstimateTwoViewInfo on the caller's two output objects.
EstimateTwoViewInfo(intrinsics1, intrinsics2, correspondences) ==
    /\ est.calls < MaxCalls
    /\ \E solver \in SolverOutcomes(
                         Branch(intrinsics1, intrinsics2),
                         Len(NormalizeFeatures(intrinsics1, intrinsics2,
                                               correspondences))) :
          LET r == EstimateTwoViewInfoResult(
                       intrinsics1, intrinsics2, correspondences, solver,
                       est.twoview_info, est.inlier_indices)
          IN  est' = [calls |-> est.calls + 1,
                      intrinsics1 |-> intrinsics1,
                      intrinsics2 |-> intrinsics2,
                      correspondences |-> correspondences,
                      branch |-> Branch(intrinsics1, intrinsics2),
                      normalized |-> r.inputs.normalized,
                      error_thresh |-> r.inputs.error_thresh,
                      solver |-> solver,
                      success |-> r.success,
                      written |-> r.written,
                      before |-> [twoview_info |-> est.twoview_info,
                                  inlier_indices |-> est.inlier_indices],
                      twoview_info |-> r.twoview_info,
                      inlier_indices |-> r.inlier_indices]
    /\ UNCHANGED << options, image_filepaths, intrinsics_map, image_masks, phase,
                    next_i, pc, local, intrinsics_mutex, matcher_mutex,
                    matcher_images, match_input, out_intrinsics, abort_reason,
                    file_exists, cache_exists, exif_data, add_calls,
                    last_mask_call, cut, recon, extraction, fisheye >>

\* The caller holds a TwoViewInfo and an inlier vector with some contents.
EstimateInit ==
    /\ options = [only_calibrated_views |-> FALSE, match_out_of_core |-> FALSE,
                  num_threads |-> 1]
    /\ Constructed
    /\ last_mask_call = NoMaskCall
    /\ cut = IdleCut
    /\ recon = IdleRecon
    /\ extraction = IdleExtraction
    /\ fisheye = IdleFisheye
    /\ est \in { [IdleEst EXCEPT
                    !.twoview_info = t, !.inlier_indices = v,
                    !.before = [twoview_info |-> t, inlier_indices |-> v]] :
                 t \in CallerTwoViewInfos, v \in CallerInlierVectors }

EstimateNext ==
    \E intrinsics1 \in EstimatePriors, intrinsics2 \in EstimatePriors,
       correspondences \in CorrespondenceLists :
          EstimateTwoViewInfo(intrinsics1, intrinsics2, correspondences)

EstimateSpec == EstimateInit /\ [][EstimateNext]_vars

\* ================================================================== claims
\* MatchImages has been called (it is the only step that enters "matched";
\* the output loop follows it).
MatchStarted ==
    \/ phase \in {"matched", "returned"}
    \/ abort_reason = "FindOrDie"

\* C1: MatchImages starts only after every submitted ProcessImage task has
\* finished: once it has started every task is at its end, the matcher saw
\* every registration the tasks made, and no later step moves a task, writes
\* the calibration map or calls the matcher's AddImage.
C1_BarrierBeforeMatching ==
    /\ [](MatchStarted =>
            /\ AllTasksFinished
            /\ match_input = matcher_images
            /\ intrinsics_mutex = 0
            /\ matcher_mutex = 0)
    /\ [][MatchStarted =>
            /\ pc' = pc
            /\ intrinsics_map' = intrinsics_map
            /\ matcher_images' = matcher_images]_vars

\* Two tasks ran on two threads and both registered before matching started.
C1_Witness ==
    /\ phase = "matched"
    /\ NumThreads = 2
    /\ Cardinality(matcher_images) = 2

\* C9: the registration list is the sequence of AddImage calls, duplicates
\* kept; a run has one task slot per list entry, submits exactly the entries
\* whose file exists, and its output vector has one element per entry.
C9_NoDeduplication ==
    /\ image_filepaths = [k \in 1..Len(add_calls) |-> add_calls[k].path]
    /\ phase # "setup" =>
          /\ DOMAIN pc = 1..Len(add_calls)
          /\ Len(out_intrinsics) = Len(add_calls)
          /\ \A i \in DOMAIN pc :
                /\ i < next_i =>
                     (pc[i] = "skipped" <=> file_exists[image_filepaths[i]] = "no")
                /\ i >= next_i => pc[i] = "unsubmitted"

\* The same path was added twice, both entries were submitted and the run
\* returned a vector of two elements.
C9_Witness ==
    /\ phase = "returned"
    /\ Len(image_filepaths) = 2
    /\ image_filepaths[1] = image_filepaths[2]
    /\ pc[1] = "done"
    /\ pc[2] = "done"
    /\ Len(out_intrinsics) = 2

\* C10: every AddImage call appends its path to the registration list; with a
\* prior it stores the prior under the path, replacing an earlier one and
\* leaving the other entries alone; without a prior it leaves the
\* calibration map unchanged.
C10_AddImageEffect ==
    [][add_calls' # add_calls =>
         LET c == add_calls'[Len(add_calls')] IN
         /\ image_filepaths' = Append(image_filepaths, c.path)
         /\ IF c.has_prior
              THEN /\ DOMAIN intrinsics_map' = DOMAIN intrinsics_map \cup {c.path}
                   /\ intrinsics_map'[c.path] = c.prior
                   /\ \A q \in DOMAIN intrinsics_map :
                         q # c.path => intrinsics_map'[q] = intrinsics_map[q]
              ELSE intrinsics_map' = intrinsics_map]_vars

\* The second AddImage(id, prior) replaced the prior the first one stored.
C10_Witness ==
    /\ phase = "setup"
    /\ Len(add_calls) = 2
    /\ add_calls[1].path = add_calls[2].path
    /\ add_calls[1].has_prior
    /\ add_calls[2].has_prior
    /\ add_calls[1].prior # add_calls[2].prior
    /\ intrinsics_map[add_calls[2].path] = add_calls[2].prior

\* Positions of ProcessImage after the early exit of line 257.
PastPolicyPcs == {"cache", "extract", "lock_matcher", "add"}

\* C6: with only_calibrated_views on, a task whose focal length is unset
\* after EXIF resolution goes no further than the early exit: no task past it
\* and no registration with the matcher carries an unset focal length, and a
\* task that took the exit has made no registration.
C6_PolicyExcludesUncalibrated ==
    /\ options.only_calibrated_views =>
          /\ \A r \in matcher_images : r.intrinsics.focal_set
          /\ \A i \in DOMAIN pc :
                pc[i] \in PastPolicyPcs => local[i].intrinsics.focal_set
    /\ \A i \in DOMAIN pc :
          pc[i] = "excluded" =>
             /\ options.only_calibrated_views
             /\ \A r \in matcher_images : r.task # i

\* One image was excluded by the policy, another one was registered, and the
\* run returned.
C6_Witness ==
    /\ phase = "returned"
    /\ \E i \in DOMAIN pc : pc[i] = "excluded"
    /\ \E i \in DOMAIN pc : pc[i] = "done"
    /\ matcher_images # {}

RegisteredPrior(path) ==
    LET given == { k \in 1..Len(add_calls) :
                      add_calls[k].path = path /\ add_calls[k].has_prior } IN
    IF given = {}
      THEN DefaultPrior
      ELSE add_calls[CHOOSE k \in given : \A j \in given : j <= k].prior

\* What ProcessImage resolves for a path when it runs alone: the registered
\* prior when it has a focal length, otherwise that prior completed by EXIF
\* and by the fallback.  An image whose file is missing keeps its prior.
ResolvedAlone(path) ==
    LET stored == RegisteredPrior(path) IN
    IF stored.focal_set \/ exif_data[path] \notin {"no_focal", "focal"}
      THEN stored
      ELSE HeuristicFocal(ExtractEXIFMetadata(stored, exif_data[path]))

\* C2: the returned priors vector has one element per registered image,
\* element i is the calibration-map entry of image i, and the vector is the
\* same for every interleaving of the tasks: it is what each image resolves
\* to when its task runs alone.
C2_PriorsIndependentOfInterleaving ==
    phase = "returned" =>
       /\ Len(out_intrinsics) = Len(image_filepaths)
       /\ \A i \in Tasks :
             /\ out_intrinsics[i] = intrinsics_map[image_filepaths[i]]
             /\ out_intrinsics[i] = ResolvedAlone(image_filepaths[i])

\* C3: a registered image whose file is missing is skipped without ending
\* the run: no run with a skipped image dies in the output loop.
C3_MissingFileNotFatal ==
    (\E i \in DOMAIN pc : pc[i] = "skipped") => abort_reason # "FindOrDie"

\* C4: the run is aborted by a mask/image size mismatch only.
C4_OnlyMaskMismatchAborts ==
    phase = "aborted" => abort_reason = "mask_size"

\* C5: an image whose descriptor extraction failed is not registered with
\* the matcher.
C5_FailedExtractionNotRegistered ==
    \A r \in matcher_images : r.features # "extraction_failed"

\* The aborts that C8 leaves aside: an external call of a task that fails,
\* and the other CHECKs of a task.
AbortInsideTask ==
    abort_reason \in {"mask_size", "ExtractEXIFMetadata",
                      "GetFilenameFromFilepath", "data_race"}

\* C8: under fair scheduling a run that has started ends by returning to its
\* caller, unless a task was aborted.
C8_RunReturns ==
    (phase = "submitting") ~> (phase = "returned" \/ AbortInsideTask)

\* ------------------------------------------------ registration of masks only
\* A caller that only registers masks, for any image and any mask file.
MaskNext == \E p \in Paths, m \in Masks : AddMaskForFeaturesExtraction(p, m)

MaskSpec == Init /\ [][MaskNext]_vars

\* C11: after an AddMaskForFeaturesExtraction call the image of the call is
\* associated with the mask of the call, whatever was associated before (the
\* map holds one mask per image, the one of the last call for it), and the
\* association of every other image is what it was before the call.
C11_LastMaskWins ==
    [][ last_mask_call' # NoMaskCall =>
          LET p == last_mask_call'.path
              m == last_mask_call'.mask
          IN  /\ p \in DOMAIN image_masks'
              /\ image_masks'[p] = m
              /\ \A q \in Paths \ {p} :
                    /\ (q \in DOMAIN image_masks') = (q \in DOMAIN image_masks)
                    /\ q \in DOMAIN image_masks =>
                          image_masks'[q] = image_masks[q] ]_vars

\* Every image has a mask, and the last call gave an image the second mask
\* while another image keeps the first.
C11_Witness ==
    /\ DOMAIN image_masks = Paths
    /\ last_mask_call = [path |-> <<"a", "x.jpg">>, mask |-> <<"a", "small.png">>]
    /\ image_masks[<<"a", "x.jpg">>] = <<"a", "small.png">>
    /\ image_masks[<<"b", "x.jpg">>] = <<"a", "m.png">>

\* C12: within a run, an entry of the calibration map that a task has written
\* (it carries the image size, which only the EXIF reader sets) keeps every
\* field that EXIF or the heuristic fallback set: whatever step comes next,
\* also the write of a concurrent task for a duplicate registration, the
\* entry still has the image size, and still has the focal length if it had
\* one.
C12_ResolvedFieldsStaySet ==
    [][ \A p \in DOMAIN intrinsics_map :
          (phase # "setup" /\ intrinsics_map[p].image_width # 0) =>
             /\ p \in DOMAIN intrinsics_map'
             /\ intrinsics_map'[p].image_width # 0
             /\ intrinsics_map'[p].image_height # 0
             /\ intrinsics_map[p].focal_set => intrinsics_map'[p].focal_set ]_vars

\* A task is about to write the entry of an image that the task of a
\* duplicate registration has already written with a focal length.
C12_Witness ==
    \E i \in DOMAIN pc, j \in DOMAIN pc :
       /\ i # j
       /\ image_filepaths[i] = image_filepaths[j]
       /\ pc[i] = "write"
       /\ pc[j] = "done"
       /\ image_filepaths[i] \in DOMAIN intrinsics_map
       /\ intrinsics_map[image_filepaths[i]].image_width # 0
       /\ intrinsics_map[image_filepaths[i]].focal_set

\* A call of EstimateTwoViewInfo has returned success, or failure.
Succeeded == est.calls > 0 /\ est.success
Failed == est.calls > 0 /\ ~est.success

\* C13: EstimateTwoViewInfo calls the calibrated solver exactly when both
\* priors have the focal length set; with neither or exactly one set it
\* calls the uncalibrated solver.
C13_CalibratedIffBothSet ==
    est.calls > 0 =>
       /\ (est.branch = "calibrated") =
             (est.intrinsics1.focal_set /\ est.intrinsics2.focal_set)
       /\ (est.branch = "uncalibrated") =
             (~est.intrinsics1.focal_set \/ ~est.intrinsics2.focal_set)

\* Exactly one prior has a focal length and the uncalibrated solver
\* succeeded.
C13_Witness ==
    /\ Succeeded
    /\ est.intrinsics1.focal_set
    /\ ~est.intrinsics2.focal_set
    /\ est.branch = "uncalibrated"

\* C14: when the solver fails, in either branch, EstimateTwoViewInfo returns
\* false, no field of the caller's TwoViewInfo is written (it holds what it
\* held before the call) and the inlier vector is empty, whatever it held
\* before the call.
C14_FailureLeavesRecordUntouched ==
    (est.calls > 0 /\ ~est.solver.ok) =>
       /\ ~est.success
       /\ est.written = {}
       /\ est.twoview_info = est.before.twoview_info
       /\ est.inlier_indices = << >>

\* A failed call on a TwoViewInfo that held an earlier result and an inlier
\* vector that was not empty.
C14_Witness ==
    /\ Failed
    /\ est.before.inlier_indices # << >>
    /\ est.before.twoview_info.num_verified_matches = 2
    /\ est.twoview_info.num_verified_matches = 2

\* Either image has a declared width or height of zero.
UnknownDimensions ==
    \/ est.intrinsics1.image_width = 0 \/ est.intrinsics1.image_height = 0
    \/ est.intrinsics2.image_width = 0 \/ est.intrinsics2.image_height = 0

\* C15: when either image has a declared width or height of zero, the
\* visibility score of a successful estimate is the number of inliers the
\* solver reported, which is the size of the returned inlier vector.
C15_UnknownDimensionsScoreIsInlierCount ==
    (Succeeded /\ UnknownDimensions) =>
       /\ est.twoview_info.visibility_score = Len(est.solver.inliers)
       /\ est.twoview_info.visibility_score = Len(est.inlier_indices)

\* C16: on success the returned inlier vector is the solver's inlier list,
\* in the solver's order, every index is an index of the input
\* correspondences (0-based), and num_verified_matches is its size.
C16_InliersVerbatim ==
    Succeeded =>
       /\ est.inlier_indices = est.solver.inliers
       /\ \A k \in DOMAIN est.inlier_indices :
             /\ est.inlier_indices[k] >= 0
             /\ est.inlier_indices[k] < Len(est.correspondences)
       /\ est.twoview_info.num_verified_matches = Len(est.inlier_indices)

\* A success with fewer inliers than correspondences, reported out of
\* index order, into a vector that held something else.
C16_Witness ==
    /\ Succeeded
    /\ Len(est.correspondences) = 2
    /\ est.inlier_indices = <<1, 0>>
    /\ est.before.inlier_indices = <<0>>

FocalFields == { "focal_length_1", "focal_length_2" }

FreshTwoViewInfo ==
    [focal_length_1 |-> 0, focal_length_2 |-> 0, position_2 |-> <<0, 0, 0>>,
     rotation_2 |-> <<0, 0, 0>>, num_verified_matches |-> 0,
     visibility_score |-> 1]

\* C18: what a call returns (the success flag, the inlier vector and, on
\* success, the record) is what the same call, with the same priors and
\* correspondences and the same answer of the solver, returns on output
\* objects no call has touched: it depends neither on the calls that came
\* before nor on what the inlier vector held.
C18_StatelessPerCall ==
    est.calls > 0 =>
       LET fresh == EstimateTwoViewInfoResult(
                        est.intrinsics1, est.intrinsics2, est.correspondences,
                        est.solver, FreshTwoViewInfo, << >>)
       IN  /\ est.success = fresh.success
           /\ est.inlier_indices = fresh.inlier_indices
           /\ est.success => est.twoview_info = fresh.twoview_info

\* The second of two calls succeeded, with known image sizes, on a record
\* that held the result of the first and an inlier vector that was not
\* empty.
C18_Witness ==
    /\ est.calls = 2
    /\ est.success
    /\ ~UnknownDimensions
    /\ est.before.inlier_indices # << >>
    /\ est.before.twoview_info # FreshTwoViewInfo

\* The run is over for the tasks: the matcher has been given its images.
TasksOver == phase \in {"matched", "returned"}

\* Every registered path names a file, and no feature file was found
\* missing by the run.
EveryCacheFilePresent ==
    /\ \A i \in Tasks : HasFilename(image_filepaths[i])
    /\ \A f \in FeatureFilepaths : cache_exists[f] # "no"

\* The images a run registers when its tasks do not overlap: those whose
\* file exists and that the policy does not exclude.
RegisteredAlone ==
    { i \in Tasks :
         /\ file_exists[image_filepaths[i]] = "yes"
         /\ ~SkippedByPolicy(ResolvedAlone(image_filepaths[i])) }

\* C19: a run with out-of-core matching that finds the feature file of every
\* image registers the identifiers that the run which wrote the files
\* registered (those of the images whose file exists and that the policy
\* keeps), extracts nothing, and registers every image with its resolved
\* calibration.
C19_RerunRegistersSameSet ==
    (TasksOver /\ options.match_out_of_core /\ EveryCacheFilePresent) =>
       /\ { r.name : r \in matcher_images } =
             { FilenameOf(image_filepaths[i]) : i \in RegisteredAlone }
       /\ \A r \in matcher_images :
             /\ r.features = "on_disk"
             /\ r.intrinsics = ResolvedAlone(image_filepaths[r.task])

\* The mask registered for the image of task i has another size than the
\* image.
MaskMismatch(i) ==
    LET mask == FindWithDefault(image_masks, image_filepaths[i], EmptyPath) IN
    /\ mask # EmptyPath
    /\ MaskFile(mask) # [width |-> ImageFile.width, height |-> ImageFile.height]

\* C20 (as stated): an image whose mask has another size than the image is
\* never registered with the matcher, and MatchImages is never called in a
\* run that has such an image.
C20_MismatchAlwaysAborts ==
    \A i \in DOMAIN pc :
       MaskMismatch(i) =>
          /\ \A r \in matcher_images : r.task # i
          /\ ~MatchStarted

\* C20 (amended): a task whose image has a mask of another size never gets
\* past a successful extraction: when the extractor succeeds the process is
\* aborted there, by that task, which has registered nothing; MatchImages
\* has not been called and is never called, and no output is returned.
C20_DetectedMismatchAborts ==
    /\ \A i \in DOMAIN pc :
          MaskMismatch(i) =>
             /\ local[i].features # "extracted"
             /\ \A r \in matcher_images :
                   r.task = i => r.features # "extracted"
    /\ abort_reason = "mask_size" =>
          /\ phase = "aborted"
          /\ ~MatchStarted
          /\ match_input = {}
          /\ \E i \in DOMAIN pc :
                /\ pc[i] = "extract"
                /\ MaskMismatch(i)
                /\ \A r \in matcher_images : r.task # i

\* The process was aborted on a mask of another size after another image
\* had been registered with the matcher.
C20_Witness ==
    /\ abort_reason = "mask_size"
    /\ matcher_images # {}
    /\ \E i \in DOMAIN pc : pc[i] = "extract" /\ MaskMismatch(i)

\* C27 (as stated): a task reads the calibration map only while it holds
\* intrinsics_mutex_, so that no task is at its lookup of the map while
\* another task is inside its write of the map.
C27_NoReadDuringWrite ==
    \A i \in DOMAIN pc, j \in DOMAIN pc :
       ~(i # j /\ pc[i] = "read" /\ pc[j] = "write")

\* The steps of a task that do file I/O: the EXIF read, the check for the
\* feature file, and the extraction (image and mask loading included).
IoPcs == { "exif", "cache", "extract" }

\* C28: a task that is at a file I/O step holds neither lock;
\* intrinsics_mutex_ is held only by a task inside the write of the map, and
\* matcher_mutex_ only by a task inside the matcher's AddImage.
C28_NoLockAcrossIo ==
    /\ \A i \in DOMAIN pc :
          pc[i] \in IoPcs => (intrinsics_mutex # i /\ matcher_mutex # i)
    /\ intrinsics_mutex # 0 =>
          (intrinsics_mutex \in DOMAIN pc /\ pc[intrinsics_mutex] = "write")
    /\ matcher_mutex # 0 =>
          (matcher_mutex \in DOMAIN pc /\ pc[matcher_mutex] = "add")

\* A task extracts descriptors after it wrote the map, while another task
\* holds intrinsics_mutex_ and a third party holds nothing else.
C28_Witness ==
    \E i \in DOMAIN pc, j \in DOMAIN pc :
       /\ pc[i] = "extract"
       /\ local[i].intrinsics.image_width # 0
       /\ pc[j] = "write"
       /\ intrinsics_mutex = j

\* C29: at most one task at a time is inside matcher_->AddImage, and the
\* task that is holds matcher_mutex_, whether it registers from the cache or
\* with the features it extracted.
C29_OneRegistrationAtATime ==
    /\ Cardinality({ i \in DOMAIN pc : pc[i] = "add" }) <= 1
    /\ \A i \in DOMAIN pc : pc[i] = "add" => matcher_mutex = i

\* A task is inside the cache-hit registration while another task, which
\* also found its feature file, waits for the lock.
C29_Witness ==
    \E i \in DOMAIN pc, j \in DOMAIN pc :
       /\ pc[i] = "add"
       /\ local[i].cache_hit
       /\ matcher_mutex = i
       /\ pc[j] = "lock_matcher"
       /\ local[j].cache_hit

\* C30: at no time are more tasks executing than the smaller of the
\* configured thread count and the number of registered images.
C30_RunningTasksBounded ==
    NumRunning <= Min(options.num_threads, Len(image_filepaths))

\* One configured thread and two images: one task executes, the other
\* waits in the queue of the pool.
C30_Witness ==
    /\ options.num_threads = 1
    /\ Len(image_filepaths) = 2
    /\ NumRunning = 1
    /\ \E i \in DOMAIN pc : pc[i] = "queued"

\* ===================================================== NormalizedGraphCut
\* math/graph/normalized_graph_cut.h, instantiated for integer node ids.  An
\* edge is << first, second, weight >>; the edges of a call are a set with one
\* weight per pair of nodes.

\* The sum of the values of the function f over the finite set S.
RECURSIVE SumOf(_, _)
SumOf(f, S) ==
    IF S = {} THEN 0
    ELSE LET x == CHOOSE x \in S : TRUE IN f[x] + SumOf(f, S \ {x})

\* The graphs a caller passes: two squares with two heavy and two light
\* edges on different nodes, the first square with other weights, and a chain
\* of three nodes.
CutGraphs ==
    { { <<1, 2, 3>>, <<3, 4, 3>>, <<2, 3, 1>>, <<1, 4, 1>> },
      { <<2, 3, 3>>, <<4, 5, 3>>, <<3, 4, 1>>, <<2, 5, 1>> },
      { <<1, 2, 1>>, <<3, 4, 1>>, <<2, 3, 3>>, <<1, 4, 3>> },
      { <<1, 2, 1>>, <<2, 3, 1>> } }

\* The nodes that appear in a set of edges.
NodesOf(edges) == { e[1] : e \in edges } \cup { e[2] : e \in edges }

\* The entries an eigenvector takes.
YValues == { -1, 2 }

InsertIfNotPresent(m, key, value) ==
    IF key \in DOMAIN m THEN m ELSE MapPut(m, key, value)

\* IndexNodeIds: every node of the edges that has no index yet gets the next
\* free one; node_to_index_map_ is not emptied first.  The edges are visited
\* in the order of their keys here; the order of the container is the
\* build's, and since the vector y below ranges over every vector, every
\* assignment of y entries to nodes is covered whichever order is taken.
RECURSIVE IndexNodeIds(_, _)
IndexNodeIds(node_to_index_map, edges) ==
    IF edges = {} THEN node_to_index_map
    ELSE LET edge == CHOOSE e \in edges :
                        \A o \in edges : e[1] < o[1] \/ (e[1] = o[1] /\ e[2] <= o[2])
             m1 == InsertIfNotPresent(node_to_index_map, edge[1],
                                      Cardinality(DOMAIN node_to_index_map))
             m2 == InsertIfNotPresent(m1, edge[2], Cardinality(DOMAIN m1))
         IN  IndexNodeIds(m2, edges \ {edge})

\* The rows and columns of the matrices after the resize.
Indices(node_to_index_map) == 0..(Cardinality(DOMAIN node_to_index_map) - 1)

\* CreateEdgeWeightMatrix: w(row, col) and w(col, row) of every edge, on
\* matrices that were set to zero.
CreateEdgeWeightMatrix(node_to_index_map, edges) ==
    [i \in Indices(node_to_index_map), j \in Indices(node_to_index_map) |->
        SumOf([e \in edges |->
                 (IF node_to_index_map[e[1]] = i /\ node_to_index_map[e[2]] = j
                    THEN e[3] ELSE 0)
               + (IF node_to_index_map[e[2]] = i /\ node_to_index_map[e[1]] = j
                    THEN e[3] ELSE 0)],
              edges)]

\* CreateNodeWeightMatrix: d(i) is the sum of row i of the edge weights.
CreateNodeWeightMatrix(node_to_index_map, edge_weight) ==
    [i \in Indices(node_to_index_map) |->
        SumOf([j \in Indices(node_to_index_map) |-> edge_weight[i, j]],
              Indices(node_to_index_map))]

\* What the sparse eigen solver gives for the system: it reports no success,
\* or it reports success with a vector that has one entry per index.
EigsOutcomes(node_to_index_map) ==
    { [info |-> "NOT_SUCCESSFUL", y |-> << >>] }
    \cup { [info |-> "SUCCESSFUL", y |-> y] :
           y \in [Indices(node_to_index_map) -> YValues] }

\* y(i) > cut_value, the cut value being the fraction cut_value[1] / cut_value[2].
Above(y_i, cut_value) == y_i * cut_value[2] > cut_value[1]

\* ComputeCostForCut: y is made discrete, 1 in the group above the cut value
\* and -b in the other with b = k / (1 - k), k the share of the node weights
\* in the group; the cost is y^t (D - W) y / (y^t D y).  Here both values are
\* scaled by (sum of the weights outside the group), which leaves the
\* quotient as it is, and the cost is the fraction << numerator, denominator >>,
\* or "nan" where the code divides zero by zero.
ComputeCostForCut(y, cut_value, edge_weight, node_weight) ==
    LET I == DOMAIN y
        node_weight_sum == SumOf(node_weight, I)
        in_group == SumOf([i \in I |-> IF Above(y[i], cut_value)
                                         THEN node_weight[i] ELSE 0], I)
        y_discrete == [i \in I |-> IF Above(y[i], cut_value)
                                     THEN node_weight_sum - in_group
                                     ELSE 0 - in_group]
        yDy == SumOf([i \in I |-> node_weight[i] * y_discrete[i] * y_discrete[i]], I)
        yWy == SumOf([i \in I |->
                        SumOf([j \in I |-> edge_weight[i, j] * y_discrete[i]
                                                             * y_discrete[j]], I)], I)
    IN  IF yDy = 0 THEN "nan" ELSE << yDy - yWy, yDy >>

\* cost < best_cost on doubles: false when the cost is not a number.
CostLess(cost, best_cost) ==
    /\ cost # "nan"
    /\ \/ best_cost = kInitialBestCost
       \/ cost[1] * best_cost[2] < best_cost[1] * cost[2]

\* The element that a full sort of the entries of y puts at index k (from 0):
\* what std::nth_element leaves at that position.
NthElement(y, k) ==
    CHOOSE v \in { y[i] : i \in DOMAIN y } :
        /\ Cardinality({ i \in DOMAIN y : y[i] < v }) <= k
        /\ Cardinality({ i \in DOMAIN y : y[i] <= v }) > k

\* ComputeFirstAndThirdQuantiles, after its CHECK_GE(y.size(), 4).
ComputeFirstAndThirdQuantiles(y) ==
    LET size == Cardinality(DOMAIN y)
    IN  [first |-> NthElement(y, size \div 4),
         third |-> NthElement(y, (3 * size) \div 4)]

\* The number of cut values FindOptimalCut evaluates.
kNumCutsToTest == 10

\* The loop of FindOptimalCut from candidate i on: the best cut value and its
\* cost so far, and the cut values evaluated.
RECURSIVE TestCuts(_, _, _, _, _, _)
TestCuts(i, num_cuts, best, y, edge_weight, node_weight) ==
    IF i >= num_cuts THEN best
    ELSE LET q == ComputeFirstAndThirdQuantiles(y)
             cut_value == << (kNumCutsToTest - 1 - i) * q.first + i * q.third,
                             kNumCutsToTest - 1 >>
             cost == ComputeCostForCut(y, cut_value, edge_weight, node_weight)
             tested == Append(best.tested, cut_value)
             next == IF CostLess(cost, best.cost)
                       THEN [cut_value |-> cut_value, cost |-> cost, tested |-> tested]
                       ELSE [best EXCEPT !.tested = tested]
         IN  CHOOSE result \in { TestCuts(i + 1, num_cuts, b, y, edge_weight,
                                           node_weight) : b \in {next} } : TRUE

\* FindOptimalCut: the best of the candidates between the quantiles, then
\* every node of node_to_index_map_ is added to one of the two sets of the
\* caller, which are not emptied first.
FindOptimalCut(y, node_to_index_map, edge_weight, node_weight, subgraph1, subgraph2) ==
    LET best == TestCuts(0, kNumCutsToTest,
                         [cut_value |-> <<0, 1>>, cost |-> kInitialBestCost,
                          tested |-> << >>],
                         y, edge_weight, node_weight)
        above == { n \in DOMAIN node_to_index_map :
                     Above(y[node_to_index_map[n]], best.cut_value) }
    IN  [subgraph1 |-> subgraph1 \cup above,
         subgraph2 |-> subgraph2 \cup ((DOMAIN node_to_index_map) \ above),
         cost |-> best.cost,
         cut_values_tested |-> best.tested]

\* ComputeCut(edges, subgraph1, subgraph2, &cost) on the object, the caller
\* passing the two sets of the call before or two sets it has just declared.
ComputeCut(edges, new_sets) ==
    /\ cut.calls < MaxCalls
    /\ cut.result # "check_failed"
    /\ \E node_to_index_map \in { IndexNodeIds(cut.node_to_index_map, edges) } :
       \E edge_weight \in { CreateEdgeWeightMatrix(node_to_index_map, edges) } :
       \E node_weight \in { CreateNodeWeightMatrix(node_to_index_map, edge_weight) } :
       \E subgraph1 \in { IF new_sets THEN {} ELSE cut.subgraph1 } :
       \E subgraph2 \in { IF new_sets THEN {} ELSE cut.subgraph2 } :
       \E called \in { [cut EXCEPT !.calls = @ + 1,
                                   !.edges = edges,
                                   !.node_to_index_map = node_to_index_map,
                                   !.before = [subgraph1 |-> subgraph1,
                                               subgraph2 |-> subgraph2,
                                               node_to_index_map |-> cut.node_to_index_map],
                                   !.subgraph1 = subgraph1,
                                   !.subgraph2 = subgraph2,
                                   !.cut_values_tested = << >>] } :
       \E eigs \in EigsOutcomes(node_to_index_map) :
          \/ /\ eigs.info # "SUCCESSFUL"
             /\ cut' = [called EXCEPT !.result = "false", !.y = << >>]
          \/ /\ eigs.info = "SUCCESSFUL"
             /\ Cardinality(DOMAIN eigs.y) < 4
             /\ cut' = [called EXCEPT !.result = "check_failed", !.y = eigs.y]
          \/ /\ eigs.info = "SUCCESSFUL"
             /\ Cardinality(DOMAIN eigs.y) >= 4
             /\ \E r \in { FindOptimalCut(eigs.y, node_to_index_map, edge_weight,
                                           node_weight, subgraph1, subgraph2) } :
                   cut' = [called EXCEPT !.result = "true",
                                         !.y = eigs.y,
                                         !.subgraph1 = r.subgraph1,
                                         !.subgraph2 = r.subgraph2,
                                         !.cost = r.cost,
                                         !.cut_values_tested = r.cut_values_tested]
    /\ UNCHANGED << options, image_filepaths, intrinsics_map, image_masks, phase,
                    next_i, pc, local, intrinsics_mutex, matcher_mutex,
                    matcher_images, match_input, out_intrinsics, abort_reason,
                    file_exists, cache_exists, exif_data, add_calls,
                    last_mask_call, est, recon, extraction, fisheye >>

\* A NormalizedGraphCut with some options, before its first call.
CutInit ==
    /\ options = [only_calibrated_views |-> FALSE, match_out_of_core |-> FALSE,
                  num_threads |-> 1]
    /\ Constructed
    /\ last_mask_call = NoMaskCall
    /\ est = IdleEst
    /\ recon = IdleRecon
    /\ extraction = IdleExtraction
    /\ fisheye = IdleFisheye
    /\ cut \in { ConstructedCut(n) : n \in CutOptionValues }

CutNext == \E edges \in CutGraphs, new_sets \in BOOLEAN : ComputeCut(edges, new_sets)

CutSpec == CutInit /\ [][CutNext]_vars

\* C21: after a ComputeCut call that returned true, the two output sets are
\* disjoint and their union is the set of the nodes of the edges of the call.
C21_OutputsPartitionNodes ==
    cut.result = "true" =>
        /\ cut.subgraph1 \cap cut.subgraph2 = {}
        /\ cut.subgraph1 \cup cut.subgraph2 = NodesOf(cut.edges)

\* C22: the number of candidate cut values a successful ComputeCut evaluated
\* is the configured num_cuts_to_test.
C22_TestsConfiguredNumberOfCuts ==
    cut.result = "true" =>
        Len(cut.cut_values_tested) = cut.options.num_cuts_to_test

\* ========================================================= Reconstruction
\* sfm/reconstruction.h as sfm/reconstruction_test.cc exercises it.  Both
\* objects of the tests are kept: `reconstruction`, and the `subset` that
\* GetSubReconstruction fills.  The subset is a copy that shares nothing with
\* the reconstruction, so the calls are made in the order of the test: on the
\* reconstruction until the subset is taken, on the subset afterwards.

\* std::unordered_map::erase(key).
MapErase(m, key) == [k \in (DOMAIN m) \ {key} |-> m[k]]

NumViews(r) == Cardinality(DOMAIN r.views)
NumTracks(r) == Cardinality(DOMAIN r.tracks)
NumCameraIntrinsicGroups(r) == Cardinality(DOMAIN r.camera_intrinsics_groups)

ViewIdFromName(r, name) == FindWithDefault(r.view_name_to_id, name, kInvalidViewId)

CameraIntrinsicsGroupIdFromViewId(r, view_id) ==
    FindWithDefault(r.view_id_to_camera_intrinsics_group_id, view_id,
                    kInvalidCameraIntrinsicsGroupId)

\* The views of a group; no views for an id that is not a group.
GetViewsInCameraIntrinsicGroup(r, group_id) ==
    FindWithDefault(r.camera_intrinsics_groups, group_id, {})

\* A view with this name is never added twice.
NameNeverTaken(r, name) == FALSE

NameTaken(r, name) == name \in DOMAIN r.view_name_to_id

\* AddView(view_name, group_id): the next view id for a new name, in the
\* given group; kInvalidViewId and no change for a name that is present.
AddViewToGroup(r, name, group_id) ==
    IF NameTaken(r, name)
      THEN [r |-> r, id |-> kInvalidViewId]
      ELSE LET id == r.next_view_id
           IN  [r |-> [r EXCEPT
                         !.view_name_to_id = MapPut(@, name, id),
                         !.views = MapPut(@, id, [name |-> name, features |-> << >>]),
                         !.view_id_to_camera_intrinsics_group_id = MapPut(@, id, group_id),
                         !.camera_intrinsics_groups =
                             MapPut(@, group_id,
                                    GetViewsInCameraIntrinsicGroup(r, group_id) \cup {id}),
                         !.next_view_id = id + 1],
                id |-> id]

\* A group that has lost its last view stays in the reconstruction.
KeepEmptyGroup(groups, group_id) == groups

EraseEmptyGroup(groups, group_id) ==
    IF groups[group_id] = {} THEN MapErase(groups, group_id) ELSE groups

\* RemoveView(view_id): false for an id that is not a view; else the view
\* leaves its tracks, its name, its group and the views.
RemoveViewFrom(r, view_id) ==
    IF view_id \notin DOMAIN r.views
      THEN [r |-> r, returned |-> FALSE]
      ELSE LET group_id == CameraIntrinsicsGroupIdFromViewId(r, view_id)
               groups == MapPut(r.camera_intrinsics_groups, group_id,
                                r.camera_intrinsics_groups[group_id] \ {view_id})
           IN  [r |-> [r EXCEPT
                         !.tracks = [t \in DOMAIN r.tracks |->
                                       [view_ids |-> r.tracks[t].view_ids \ {view_id}]],
                         !.view_name_to_id = MapErase(@, r.views[view_id].name),
                         !.view_id_to_camera_intrinsics_group_id = MapErase(@, view_id),
                         !.camera_intrinsics_groups = EraseEmptyGroup(groups, group_id),
                         !.views = MapErase(@, view_id)],
                returned |-> TRUE]

AlreadyObserved(view, track_id) == track_id \in DOMAIN view.features

\* An observation is stored whether or not the view holds one of the track.
AddObservationOverwrites(r, view_id, track_id, feature) ==
    [r |-> [r EXCEPT
              !.views[view_id].features = MapPut(@, track_id, feature),
              !.tracks[track_id].view_ids = @ \cup {view_id}],
     returned |-> TRUE]

\* AddObservation(view_id, track_id, feature) for a view and a track of the
\* reconstruction: false if the view has a feature of the track or the track
\* has the view; else the feature is added to the view and the view to the
\* track.
AddObservationTo(r, view_id, track_id, feature) ==
    IF \/ AlreadyObserved(r.views[view_id], track_id)
       \/ view_id \in r.tracks[track_id].view_ids
      THEN [r |-> r, returned |-> FALSE]
      ELSE [r |-> [r EXCEPT
                     !.views[view_id].features = MapPut(@, track_id, feature),
                     !.tracks[track_id].view_ids = @ \cup {view_id}],
            returned |-> TRUE]

\* Every view of the track is taken over into the copy.
AllViewsOfTrack(track, views_in_subset) == track.view_ids

ViewsOfTrackInSubset(track, views_in_subset) == track.view_ids \cap views_in_subset

\* GetSubReconstruction(views_in_subset, &subset) into a new Reconstruction:
\* the views of the set with their names, features and groups, and the
\* tracks those views observe, each with its views of the set only.
GetSubReconstructionOf(r, views_in_subset) ==
    LET kept == views_in_subset \cap DOMAIN r.views
        tracks_in_subset == { t \in DOMAIN r.tracks :
                                \E v \in kept : t \in DOMAIN r.views[v].features }
        group_ids == { r.view_id_to_camera_intrinsics_group_id[v] : v \in kept }
    IN  [view_name_to_id |-> [n \in { r.views[v].name : v \in kept } |->
                                r.view_name_to_id[n]],
         views |-> [v \in kept |-> r.views[v]],
         tracks |-> [t \in tracks_in_subset |->
                       [view_ids |-> ViewsOfTrackInSubset(r.tracks[t], views_in_subset)]],
         view_id_to_camera_intrinsics_group_id |->
             [v \in kept |-> r.view_id_to_camera_intrinsics_group_id[v]],
         camera_intrinsics_groups |->
             [g \in group_ids |-> r.camera_intrinsics_groups[g] \cap kept],
         next_view_id |-> r.next_view_id,
         next_track_id |-> r.next_track_id,
         next_camera_intrinsics_group_id |-> r.next_camera_intrinsics_group_id]

ReconUnchanged ==
    UNCHANGED << options, image_filepaths, intrinsics_map, image_masks, phase,
                 next_i, pc, local, intrinsics_mutex, matcher_mutex,
                 matcher_images, match_input, out_intrinsics, abort_reason,
                 file_exists, cache_exists, exif_data, add_calls,
                 last_mask_call, est, cut, extraction, fisheye >>

\* reconstruction.AddView(view_name): a view in a camera intrinsics group of
\* its own, the next group id being used up by the call.
AddView(name) ==
    /\ ~recon.subset_taken
    /\ recon.reconstruction.next_view_id < MaxViews
    /\ recon.reconstruction.next_camera_intrinsics_group_id < MaxViews
    /\ LET r == recon.reconstruction
           a == AddViewToGroup(r, name, r.next_camera_intrinsics_group_id)
       IN  recon' = [recon EXCEPT
                       !.reconstruction =
                           [a.r EXCEPT !.next_camera_intrinsics_group_id = @ + 1],
                       !.added_names = @ \cup {name},
                       !.last = [NoReconCall EXCEPT
                                   !.op = "AddView", !.name = name,
                                   !.returned_id = a.id, !.before = r]]
    /\ ReconUnchanged

\* reconstruction.AddView(view_name, group_id).
AddViewWithCameraIntrinsicsGroup(name, group_id) ==
    /\ ~recon.subset_taken
    /\ recon.reconstruction.next_view_id < MaxViews
    /\ LET r == recon.reconstruction
           a == AddViewToGroup(r, name, group_id)
       IN  recon' = [recon EXCEPT
                       !.reconstruction = a.r,
                       !.added_names = @ \cup {name},
                       !.last = [NoReconCall EXCEPT
                                   !.op = "AddView", !.name = name,
                                   !.returned_id = a.id, !.before = r]]
    /\ ReconUnchanged

\* RemoveView(view_id) on the reconstruction or on the subset.
RemoveView(object, view_id) ==
    /\ recon.subset_taken <=> object = "subset"
    /\ LET r == recon[object]
           a == RemoveViewFrom(r, view_id)
       IN  recon' = [recon EXCEPT
                       ![object] = a.r,
                       !.subset_removals =
                           IF object = "subset" /\ view_id \in recon.views_in_subset
                             THEN @ \cup {view_id} ELSE @,
                       !.last = [NoReconCall EXCEPT
                                   !.op = "RemoveView", !.object = object,
                                   !.view_id = view_id,
                                   !.first_removal =
                                       /\ object = "subset"
                                       /\ view_id \notin recon.subset_removals,
                                   !.returned = a.returned, !.before = r]]
    /\ ReconUnchanged

\* reconstruction.AddTrack(): an empty track with the next track id.
AddTrack ==
    /\ ~recon.subset_taken
    /\ recon.reconstruction.next_track_id < MaxTracks
    /\ LET r == recon.reconstruction
           id == r.next_track_id
       IN  recon' = [recon EXCEPT
                       !.reconstruction =
                           [r EXCEPT !.tracks = MapPut(@, id, [view_ids |-> {}]),
                                     !.next_track_id = id + 1],
                       !.last = [NoReconCall EXCEPT
                                   !.op = "AddTrack", !.track_id = id,
                                   !.returned_id = id, !.before = r]]
    /\ ReconUnchanged

\* reconstruction.AddObservation(view_id, track_id, feature); the view and
\* the track are in the reconstruction (the call CHECKs it).
AddObservation(view_id, track_id, feature) ==
    /\ ~recon.subset_taken
    /\ view_id \in DOMAIN recon.reconstruction.views
    /\ track_id \in DOMAIN recon.reconstruction.tracks
    /\ LET r == recon.reconstruction
           a == AddObservationTo(r, view_id, track_id, feature)
       IN  recon' = [recon EXCEPT
                       !.reconstruction = a.r,
                       !.last = [NoReconCall EXCEPT
                                   !.op = "AddObservation", !.view_id = view_id,
                                   !.track_id = track_id, !.feature = feature,
                                   !.returned = a.returned, !.before = r]]
    /\ ReconUnchanged

\* Reconstruction subset;
\* reconstruction.GetSubReconstruction(views_in_subset, &subset);
GetSubReconstruction(views_in_subset) ==
    /\ ~recon.subset_taken
    /\ views_in_subset \subseteq DOMAIN recon.reconstruction.views
    /\ LET r == recon.reconstruction
       IN  recon' = [recon EXCEPT
                       !.subset = GetSubReconstructionOf(r, views_in_subset),
                       !.subset_taken = TRUE,
                       !.subset_removals = {},
                       !.views_in_subset = views_in_subset,
                       !.last = [NoReconCall EXCEPT
                                   !.op = "GetSubReconstruction",
                                   !.views_in_subset = views_in_subset,
                                   !.before = r]]
    /\ ReconUnchanged

ReconInit ==
    /\ options = [only_calibrated_views |-> FALSE, match_out_of_core |-> FALSE,
                  num_threads |-> 1]
    /\ Constructed
    /\ last_mask_call = NoMaskCall
    /\ est = IdleEst
    /\ cut = IdleCut
    /\ recon = IdleRecon
    /\ extraction = IdleExtraction
    /\ fisheye = IdleFisheye

ViewIds == 0..(MaxViews - 1)
TrackIds == 0..(MaxTracks - 1)

ReconNext ==
    \/ \E name \in view_names : AddView(name)
    \/ \E name \in view_names, group_id \in ViewIds :
          AddViewWithCameraIntrinsicsGroup(name, group_id)
    \/ \E object \in { "reconstruction", "subset" },
          view_id \in ViewIds \cup {kInvalidViewId} : RemoveView(object, view_id)
    \/ AddTrack
    \/ \E view_id \in ViewIds, track_id \in TrackIds, feature \in features :
          AddObservation(view_id, track_id, feature)
    \/ \E views_in_subset \in SUBSET ViewIds : GetSubReconstruction(views_in_subset)

ReconSpec == ReconInit /\ [][ReconNext]_vars

\* The names of the views of a reconstruction.
NamesPresent(r) == { r.views[v].name : v \in DOMAIN r.views }

\* C23: AddView of a name that no view of the reconstruction has returns a
\* valid id, NumViews grows by one and ViewIdFromName of the name is that id;
\* AddView of a name that a view has returns kInvalidViewId; ViewIdFromName
\* of a name that was never added is kInvalidViewId.
C23_ViewNamesAreUniqueKeys ==
    /\ recon.last.op = "AddView" =>
          LET before == recon.last.before
              after == recon.reconstruction
              name == recon.last.name
              id == recon.last.returned_id
          IN  IF name \notin NamesPresent(before)
                THEN /\ id # kInvalidViewId
                     /\ NumViews(after) = NumViews(before) + 1
                     /\ ViewIdFromName(after, name) = id
                ELSE id = kInvalidViewId
    /\ \A name \in view_names \ recon.added_names :
          ViewIdFromName(recon.reconstruction, name) = kInvalidViewId

\* A second AddView of the name of the only view was refused, and another
\* name has never been added.
C23_Witness ==
    /\ recon.last.op = "AddView"
    /\ recon.last.returned_id = kInvalidViewId
    /\ NamesPresent(recon.reconstruction) = { recon.last.name }
    /\ view_names \ recon.added_names # {}

\* The groups of r that have a view other than view_id.
GroupsWithOtherViews(r, view_id) ==
    { g \in DOMAIN r.camera_intrinsics_groups :
        r.camera_intrinsics_groups[g] \ {view_id} # {} }

\* C24: RemoveView of a view of the reconstruction returns true, and then
\* NumViews is one less, the name of the view maps to kInvalidViewId, the
\* view is gone, its group id is invalid, its group does not hold it, and the
\* groups counted are those that have a view left; RemoveView of an id that
\* is no view (kInvalidViewId, a removed view) returns false.
C24_RemoveViewForgetsTheView ==
    recon.last.op = "RemoveView" =>
       LET before == recon.last.before
           after == recon[recon.last.object]
           id == recon.last.view_id
       IN  IF id \in DOMAIN before.views
             THEN LET group == CameraIntrinsicsGroupIdFromViewId(before, id)
                  IN  /\ recon.last.returned
                      /\ NumViews(after) = NumViews(before) - 1
                      /\ ViewIdFromName(after, before.views[id].name) = kInvalidViewId
                      /\ id \notin DOMAIN after.views
                      /\ CameraIntrinsicsGroupIdFromViewId(after, id) =
                            kInvalidCameraIntrinsicsGroupId
                      /\ id \notin GetViewsInCameraIntrinsicGroup(after, group)
                      /\ NumCameraIntrinsicGroups(after) =
                            Cardinality(GroupsWithOtherViews(before, id))
             ELSE ~recon.last.returned

\* The last view of a group was removed from a reconstruction that has
\* another view (in another group).
C24_Witness ==
    /\ recon.last.op = "RemoveView"
    /\ recon.last.object = "reconstruction"
    /\ recon.last.returned
    /\ NumViews(recon.reconstruction) = 1
    /\ NumCameraIntrinsicGroups(recon.reconstruction) = 1
    /\ NumCameraIntrinsicGroups(recon.last.before) = 2

\* C25: AddObservation(view, track, feature) returns true if the view has no
\* observation of the track yet, and then the view holds the feature for the
\* track, the track holds the view and every other view is as before; it
\* returns false if the view has an observation of the track, with whatever
\* feature.
C25_OneObservationPerViewAndTrack ==
    recon.last.op = "AddObservation" =>
       LET before == recon.last.before
           after == recon.reconstruction
           view_id == recon.last.view_id
           track_id == recon.last.track_id
       IN  IF track_id \notin DOMAIN before.views[view_id].features
             THEN /\ recon.last.returned
                  /\ track_id \in DOMAIN after.views[view_id].features
                  /\ after.views[view_id].features[track_id] = recon.last.feature
                  /\ view_id \in after.tracks[track_id].view_ids
                  /\ \A other \in DOMAIN before.views \ {view_id} :
                        /\ other \in DOMAIN after.views
                        /\ after.views[other] = before.views[other]
             ELSE ~recon.last.returned

\* A second observation of a track in a view, with another feature than the
\* one the view holds, was refused.
C25_Witness ==
    /\ recon.last.op = "AddObservation"
    /\ ~recon.last.returned
    /\ recon.last.track_id \in
          DOMAIN recon.last.before.views[recon.last.view_id].features
    /\ recon.last.before.views[recon.last.view_id].features[recon.last.track_id]
          # recon.last.feature

\* C26: after GetSubReconstruction(S) the views of the subset are those of S,
\* every track of the subset is a track of the reconstruction, every view a
\* track of the subset holds is in S, and the features of a view of the
\* subset are those of the view in the reconstruction; the first RemoveView
\* of a view of S on the subset returns true.
C26_SubReconstructionIsTheRestriction ==
    /\ recon.last.op = "GetSubReconstruction" =>
          LET S == recon.last.views_in_subset
              original == recon.reconstruction
              subset == recon.subset
          IN  /\ DOMAIN subset.views = S
              /\ DOMAIN subset.tracks \subseteq DOMAIN original.tracks
              /\ \A t \in DOMAIN subset.tracks : subset.tracks[t].view_ids \subseteq S
              /\ \A v \in DOMAIN subset.views :
                    /\ v \in DOMAIN original.views
                    /\ subset.views[v].features = original.views[v].features
    /\ ( /\ recon.last.op = "RemoveView"
         /\ recon.last.object = "subset"
         /\ recon.last.view_id \in recon.views_in_subset
         /\ recon.last.first_removal )
       => recon.last.returned

\* A subset of one view was taken from a reconstruction in which a track is
\* observed by that view and by a view outside the subset.
C26_Witness ==
    /\ recon.last.op = "GetSubReconstruction"
    /\ Cardinality(recon.last.views_in_subset) = 1
    /\ \E t \in DOMAIN recon.subset.tracks :
          /\ recon.subset.tracks[t].view_ids # {}
          /\ ~(recon.reconstruction.tracks[t].view_ids \subseteq recon.last.views_in_subset)


\* ------------------------------------------------ EstimateTwoViewInfo, again
\* Both images have a declared width and a declared height.
KnownDimensions == ~UnknownDimensions

\* C31: with known dimensions of both images the visibility score of a
\* successful estimate is the sum of the scores of the two pyramids after
\* the features of every inlier the solver reported were added to them.
C31_ScoreCoversEverySolverInlier ==
    (Succeeded /\ KnownDimensions) =>
       est.twoview_info.visibility_score =
          ComputeVisibilityScoreOfInliers(est.intrinsics1, est.intrinsics2,
                                          est.correspondences, est.solver.inliers)

\* The normalized coordinates when no division by a focal length is made:
\* the pixel moved by the principal point of its image, over 1.
RecenteredOnly(prior, pixel) ==
    << << pixel[1] - prior.image_width \div 2, 1 >>,
       << pixel[2] - prior.image_height \div 2, 1 >> >>

\* C34: in the uncalibrated branch the coordinates handed to the solver are
\* those of both images divided by a focal length of 1, also for the image
\* whose prior has a focal length.
C34_UncalibratedNormalizationUsesUnitFocal ==
    (est.calls > 0 /\ est.branch = "uncalibrated") =>
       /\ DOMAIN est.normalized = DOMAIN est.correspondences
       /\ \A k \in DOMAIN est.correspondences :
             /\ est.normalized[k].feature1 =
                   RecenteredOnly(est.intrinsics1, est.correspondences[k].feature1)
             /\ est.normalized[k].feature2 =
                   RecenteredOnly(est.intrinsics2, est.correspondences[k].feature2)

\* An uncalibrated call in which only the first prior has a focal length,
\* which is not 1, and there are features to normalize.
C34_Witness ==
    /\ est.calls > 0
    /\ est.branch = "uncalibrated"
    /\ est.intrinsics1.focal_set
    /\ est.intrinsics1.focal # 1
    /\ ~est.intrinsics2.focal_set
    /\ est.correspondences # << >>


\* ========================================================= ExtractFeatures
\* ExtractFeatures of feature_extractor_and_matcher.cc (lines 64-126) as a
\* function of what the detector yields, of the mask and of
\* options.max_num_features.

\* FloatImage::BilinearInterpolate(x, y, 0) on the grayscale mask, for a
\* position given in half pixels: the four pixels around the position,
\* weighted by the distance to them, as << numerator, denominator >>.
MaskPixel(image_mask, x, y) ==
    IF x < image_mask.width /\ y < image_mask.height
      THEN image_mask.pixels[x, y] ELSE 0

BilinearInterpolate(image_mask, position) ==
    LET x == position[1] \div 2
        y == position[2] \div 2
        fx == position[1] % 2
        fy == position[2] % 2
    IN  << (2 - fx) * (2 - fy) * MaskPixel(image_mask, x, y)
           + fx * (2 - fy) * MaskPixel(image_mask, x + 1, y)
           + (2 - fx) * fy * MaskPixel(image_mask, x, y + 1)
           + fx * fy * MaskPixel(image_mask, x + 1, y + 1),
           4 >>

\* A keypoint is removed also when its mask value is the threshold.
NotAboveThreshold(value, threshold) ==
    value[1] * threshold[2] <= threshold[1] * value[2]

\* Line 106: BilinearInterpolate(...) < kMaskThreshold.
BelowThreshold(value, threshold) ==
    value[1] * threshold[2] < threshold[1] * value[2]

\* std::vector::erase(begin() + i), the index counted from 1 here.
Erase(seq, i) == SubSeq(seq, 1, i - 1) \o SubSeq(seq, i + 1, Len(seq))

\* Lines 104-110: from the last keypoint to the first, the keypoint and the
\* descriptor at its index are erased when the mask is dark at the keypoint.
RECURSIVE RemoveMaskedKeypoints(_, _, _, _)
RemoveMaskedKeypoints(i, keypoints, descriptors, image_mask) ==
    IF i < 1 THEN [keypoints |-> keypoints, descriptors |-> descriptors]
    ELSE IF BelowThreshold(BilinearInterpolate(image_mask, keypoints[i]),
                           kMaskThreshold)
           THEN RemoveMaskedKeypoints(i - 1, Erase(keypoints, i),
                                      Erase(descriptors, i), image_mask)
           ELSE RemoveMaskedKeypoints(i - 1, keypoints, descriptors, image_mask)

\* The last n elements are kept.
KeepLast(seq, n) == SubSeq(seq, Len(seq) - n + 1, Len(seq))

\* std::vector::resize(n) of a longer vector.
Resize(seq, n) == SubSeq(seq, 1, n)

\* Lines 113-116: both vectors are cut to max_num_features when there are
\* more keypoints.
CapFeatures(kept, max_num_features) ==
    IF Len(kept.keypoints) > max_num_features
      THEN [keypoints |-> Resize(kept.keypoints, max_num_features),
            descriptors |-> Resize(kept.descriptors, max_num_features)]
      ELSE kept

\* Lines 92-93: the mask has not the size of the image.
MaskAndImageDiffer(image_mask, image) ==
    ~(image_mask.width = image.width /\ image_mask.height = image.height)

\* ExtractFeatures: the vectors as the detector left them when it fails; a
\* CHECK when the mask has another size than the image; else the keypoints
\* the mask leaves, capped.
ExtractFeaturesOutput(max_num_features, image_mask, detect_ok, detected) ==
    IF ~detect_ok
      THEN [result |-> "extraction_failed",
            keypoints |-> detected.keypoints, descriptors |-> detected.descriptors]
    ELSE IF image_mask # NoImageMask /\ MaskAndImageDiffer(image_mask, ExtractedImage)
      THEN [result |-> "check_failed",
            keypoints |-> detected.keypoints, descriptors |-> detected.descriptors]
    ELSE LET kept == IF image_mask # NoImageMask
                       THEN RemoveMaskedKeypoints(Len(detected.keypoints),
                                                  detected.keypoints,
                                                  detected.descriptors, image_mask)
                       ELSE detected
             capped == CapFeatures(kept, max_num_features)
         IN  [result |-> "extracted",
              keypoints |-> capped.keypoints, descriptors |-> capped.descriptors]

\* Everything but the call of ExtractFeatures.
ExtractionUnchanged ==
    UNCHANGED << options, image_filepaths, intrinsics_map, image_masks, phase,
                 next_i, pc, local, intrinsics_mutex, matcher_mutex,
                 matcher_images, match_input, out_intrinsics, abort_reason,
                 file_exists, cache_exists, exif_data, add_calls,
                 last_mask_call, est, cut, recon, fisheye >>

\* ExtractFeatures(options, image_filepath, mask_filepath, &keypoints,
\* &descriptors) with two empty vectors (lines 284-287).
CallExtractFeatures ==
    /\ ~extraction.called
    /\ LET r == ExtractFeaturesOutput(extraction.max_num_features,
                                      extraction.imagemask, extraction.detect_ok,
                                      extraction.detected)
       IN  extraction' = [extraction EXCEPT !.called = TRUE,
                                            !.result = r.result,
                                            !.keypoints = r.keypoints,
                                            !.descriptors = r.descriptors]
    /\ ExtractionUnchanged

ExtractInit ==
    /\ options = [only_calibrated_views |-> FALSE, match_out_of_core |-> FALSE,
                  num_threads |-> 1]
    /\ Constructed
    /\ last_mask_call = NoMaskCall
    /\ est = IdleEst
    /\ cut = IdleCut
    /\ recon = IdleRecon
    /\ fisheye = IdleFisheye
    /\ extraction \in ExtractionInputs

ExtractNext == CallExtractFeatures

ExtractSpec == ExtractInit /\ [][ExtractNext]_vars

\* The indices of the detected keypoints over which the mask of the call is
\* at least half white; every index when there is no mask.
Unmasked ==
    { k \in DOMAIN extraction.detected.keypoints :
        \/ extraction.imagemask = NoImageMask
        \/ LET value == BilinearInterpolate(extraction.imagemask,
                                            extraction.detected.keypoints[k])
           IN  2 * value[1] >= value[2] }

\* The sequence of the elements of seq at the indices of the set, in the
\* order of seq.
RECURSIVE Restrict(_, _, _)
Restrict(seq, indices, from) ==
    IF from > Len(seq) THEN << >>
    ELSE (IF from \in indices THEN << seq[from] >> ELSE << >>)
         \o Restrict(seq, indices, from + 1)

\* The first n elements of seq, all of them when there are fewer.
Prefix(seq, n) == [k \in 1..Min(n, Len(seq)) |-> seq[k]]

\* The extraction succeeded, under a mask, without the cap cutting anything.
MaskedUncapped ==
    /\ extraction.called
    /\ extraction.result = "extracted"
    /\ extraction.imagemask # NoImageMask
    /\ extraction.max_num_features >= Len(extraction.detected.keypoints)

\* C32: after a successful extraction under a mask (and no cut by the cap)
\* the keypoints are the detected keypoints whose interpolated mask value is
\* at least 0.5, in the order of detection, and the descriptor at an index is
\* the descriptor detected with the keypoint at that index; a keypoint over
\* mask value 0 is not among them, a keypoint over mask value 1 is.
C32_MaskKeepsBrightKeypointsInOrder ==
    MaskedUncapped =>
       /\ extraction.keypoints =
             Restrict(extraction.detected.keypoints, Unmasked, 1)
       /\ extraction.descriptors =
             Restrict(extraction.detected.descriptors, Unmasked, 1)
       /\ \A k \in DOMAIN extraction.detected.keypoints :
             LET value == BilinearInterpolate(extraction.imagemask,
                                              extraction.detected.keypoints[k])
             IN  /\ value[1] = 0 => k \notin Range(extraction.descriptors)
                 /\ value[1] = value[2] => k \in Range(extraction.descriptors)

\* Three keypoints under the mask with the right column white: the first at
\* mask value 0.5 and the last at 1 are kept, the one between at 0 is not.
C32_Witness ==
    /\ MaskedUncapped
    /\ extraction.imagemask = GrayscaleMask(2, 2, { <<1, 0>>, <<1, 1>> })
    /\ extraction.detected.keypoints = << <<1, 0>>, <<0, 0>>, <<2, 2>> >>
    /\ extraction.descriptors = << 1, 3 >>

RECURSIVE BitAnd(_, _)
BitAnd(a, b) ==
    IF a = 0 \/ b = 0 THEN 0
    ELSE (a % 2) * (b % 2) + 2 * BitAnd(a \div 2, b \div 2)

\* The flag is taken for absent only when no flag at all is given.
NoFlagGiven(intrinsics_to_optimize, flag) ==
    intrinsics_to_optimize = OptimizeIntrinsicsType.NONE

\* (intrinsics_to_optimize & flag) == OptimizeIntrinsicsType::NONE.
FlagAbsent(intrinsics_to_optimize, flag) ==
    BitAnd(intrinsics_to_optimize, flag) = OptimizeIntrinsicsType.NONE

\* One if-block of lines 147-172: the indices are appended when the flag of
\* their group is absent.
EmplaceBackIfAbsent(constant_intrinsics, intrinsics_to_optimize, flag, indices) ==
    IF FlagAbsent(intrinsics_to_optimize, flag)
      THEN constant_intrinsics \o indices
      ELSE constant_intrinsics

GetSubsetFromOptimizeIntrinsicsType(intrinsics_to_optimize) ==
    IF intrinsics_to_optimize = OptimizeIntrinsicsType.ALL THEN << >>
    ELSE LET c1 == EmplaceBackIfAbsent(<< >>, intrinsics_to_optimize,
                       OptimizeIntrinsicsType.FOCAL_LENGTH, << InternalParametersIndex.FOCAL_LENGTH >>)
             c2 == EmplaceBackIfAbsent(c1, intrinsics_to_optimize,
                       OptimizeIntrinsicsType.ASPECT_RATIO, << InternalParametersIndex.ASPECT_RATIO >>)
             c3 == EmplaceBackIfAbsent(c2, intrinsics_to_optimize,
                       OptimizeIntrinsicsType.SKEW, << InternalParametersIndex.SKEW >>)
             c4 == EmplaceBackIfAbsent(c3, intrinsics_to_optimize,
                       OptimizeIntrinsicsType.PRINCIPAL_POINTS,
                       << InternalParametersIndex.PRINCIPAL_POINT_X, InternalParametersIndex.PRINCIPAL_POINT_Y >>)
         IN  EmplaceBackIfAbsent(c4, intrinsics_to_optimize,
                       OptimizeIntrinsicsType.RADIAL_DISTORTION,
                       << InternalParametersIndex.RADIAL_DISTORTION_1, InternalParametersIndex.RADIAL_DISTORTION_2,
                          InternalParametersIndex.RADIAL_DISTORTION_3, InternalParametersIndex.RADIAL_DISTORTION_4 >>)

\* FisheyeCameraModel::NumParameters (line 68).
NumParameters == kIntrinsicsSize

\* Every combination of the flags of OptimizeIntrinsicsType.
OptimizeIntrinsicsTypes ==
    OptimizeIntrinsicsType.NONE..OptimizeIntrinsicsType.ALL

FisheyeUnchanged ==
    UNCHANGED << options, image_filepaths, intrinsics_map, image_masks, phase,
                 next_i, pc, local, intrinsics_mutex, matcher_mutex,
                 matcher_images, match_input, out_intrinsics, abort_reason,
                 file_exists, cache_exists, exif_data, add_calls,
                 last_mask_call, est, cut, recon, extraction >>

\* camera.GetSubsetFromOptimizeIntrinsicsType(intrinsics_to_optimize).
CallGetSubsetFromOptimizeIntrinsicsType ==
    /\ ~fisheye.called
    /\ fisheye' = [fisheye EXCEPT
                     !.called = TRUE,
                     !.constant_intrinsics =
                        GetSubsetFromOptimizeIntrinsicsType(fisheye.intrinsics_to_optimize)]
    /\ FisheyeUnchanged

FisheyeInit ==
    /\ options = [only_calibrated_views |-> FALSE, match_out_of_core |-> FALSE,
                  num_threads |-> 1]
    /\ Constructed
    /\ last_mask_call = NoMaskCall
    /\ est = IdleEst
    /\ cut = IdleCut
    /\ recon = IdleRecon
    /\ extraction = IdleExtraction
    /\ fisheye \in { [IdleFisheye EXCEPT !.intrinsics_to_optimize = t] :
                        t \in OptimizeIntrinsicsTypes }

FisheyeNext == CallGetSubsetFromOptimizeIntrinsicsType

FisheyeSpec == FisheyeInit /\ [][FisheyeNext]_vars

\* The flag of the group a parameter of the fisheye model belongs to.
GroupFlagOf(parameter) ==
    CASE parameter = InternalParametersIndex.FOCAL_LENGTH -> OptimizeIntrinsicsType.FOCAL_LENGTH
      [] parameter = InternalParametersIndex.ASPECT_RATIO -> OptimizeIntrinsicsType.ASPECT_RATIO
      [] parameter = InternalParametersIndex.SKEW -> OptimizeIntrinsicsType.SKEW
      [] parameter \in { InternalParametersIndex.PRINCIPAL_POINT_X, InternalParametersIndex.PRINCIPAL_POINT_Y } ->
            OptimizeIntrinsicsType.PRINCIPAL_POINTS
      [] OTHER -> OptimizeIntrinsicsType.RADIAL_DISTORTION

\* The flag is one of those combined in the argument of the call.
FlagGiven(flag) == (fisheye.intrinsics_to_optimize \div flag) % 2 = 1

C38_CallsDoNotCarryOver ==
    cut.calls > 0 =>
       /\ cut.node_to_index_map = IndexNodeIds(<< >>, cut.edges)
       /\ (cut.result = "true" /\ cut.before.subgraph1 = {} /\ cut.before.subgraph2 = {})
             => cut.subgraph1 \cup cut.subgraph2 = NodesOf(cut.edges)

\* The program points of lines 234-250: EXIF is read, the map is written.
ResolutionPcs == {"exif", "lock_intrinsics", "write"}

\* C35: a task of an image whose stored prior has a focal length never is in
\* the resolution block (it reads no EXIF and does not write the map), the
\* image is registered with the stored prior, and the prior returned for it
\* is the stored prior.
C35_CalibratedPriorIsLeftAlone ==
    \A i \in DOMAIN pc :
       RegisteredPrior(image_filepaths[i]).focal_set =>
          /\ pc[i] \notin ResolutionPcs
          /\ \A r \in matcher_images :
                r.task = i => r.intrinsics = RegisteredPrior(image_filepaths[i])
          /\ phase = "returned" =>
                out_intrinsics[i] = RegisteredPrior(image_filepaths[i])

\* C36: no task holds intrinsics_mutex_ and matcher_mutex_ at the same time,
\* and a task that is about to acquire one of the two locks holds neither of
\* them: it does not acquire a lock it holds, and it does not wait for one
\* lock while it holds the other.
C36_LocksAreNeverNested ==
    /\ ~(intrinsics_mutex # 0 /\ intrinsics_mutex = matcher_mutex)
    /\ \A i \in DOMAIN pc :
          pc[i] \in {"lock_intrinsics", "lock_matcher"} =>
             (intrinsics_mutex # i /\ matcher_mutex # i)

\* Both locks are held, by two tasks, and the holder of matcher_mutex_ has
\* held intrinsics_mutex_ before, when it wrote the prior it resolved.
C36_Witness ==
    \E i \in DOMAIN pc, j \in DOMAIN pc :
       /\ i # j
       /\ intrinsics_mutex = i
       /\ matcher_mutex = j
       /\ local[j].intrinsics.image_width # 0
       /\ image_filepaths[j] \in DOMAIN intrinsics_map

\* C37: an image that the only-calibrated-views policy excluded has an entry
\* in the calibration map that EXIF completed (the image size is in it, no
\* focal length), no registration with the matcher, and, once the run has
\* returned, that entry at its index of the returned vector.
C37_ExcludedImageKeepsResolvedPrior ==
    \A i \in DOMAIN pc :
       pc[i] = "excluded" =>
          /\ image_filepaths[i] \in DOMAIN intrinsics_map
          /\ intrinsics_map[image_filepaths[i]].image_width = ImageFile.width
          /\ intrinsics_map[image_filepaths[i]].image_height = ImageFile.height
          /\ ~intrinsics_map[image_filepaths[i]].focal_set
          /\ \A r \in matcher_images : r.task # i
          /\ phase = "returned" =>
                out_intrinsics[i] = intrinsics_map[image_filepaths[i]]

\* A run has returned with an excluded image, whose returned prior has the
\* size EXIF gave and no focal length, and with another image registered.
C37_Witness ==
    /\ phase = "returned"
    /\ matcher_images # {}
    /\ \E i \in DOMAIN pc :
          /\ pc[i] = "excluded"
          /\ out_intrinsics[i].image_width = ImageFile.width
          /\ ~out_intrinsics[i].focal_set

\* Two registered images with different paths and the same filename.
SharedFilename(i, j) ==
    /\ image_filepaths[i] # image_filepaths[j]
    /\ image_filepaths[i][2] = image_filepaths[j][2]

\* C39: the identifier under which an image is registered with the matcher
\* is its filename without the directory; two images with different paths
\* and the same filename are registered under the same identifier and are
\* looked up in the same feature file, cache_dir + filename + ".features",
\* the only feature files a run looks for being those of the filenames; the
\* keys of the calibration map are whole registered paths, and each of the
\* two images that resolved its prior has its own entry.
C39_FilenameIdentifiesImage ==
    /\ \A r \in matcher_images :
          /\ r.name = image_filepaths[r.task][2]
          /\ cache_exists[<< "cache/", r.name, ".features" >>] # "?"
    /\ \A p \in DOMAIN intrinsics_map :
          \E k \in DOMAIN add_calls : add_calls[k].path = p
    /\ \A r \in matcher_images, s \in matcher_images :
          SharedFilename(r.task, s.task) =>
             /\ r.name = s.name
             /\ cache_exists[<< "cache/", image_filepaths[r.task][2], ".features" >>] # "?"
             /\ \A f \in DOMAIN cache_exists :
                   cache_exists[f] # "?" =>
                      \E t \in DOMAIN pc : f = << "cache/", image_filepaths[t][2], ".features" >>
             /\ (r.intrinsics.image_width # 0 /\ s.intrinsics.image_width # 0) =>
                   /\ image_filepaths[r.task] \in DOMAIN intrinsics_map
                   /\ image_filepaths[s.task] \in DOMAIN intrinsics_map

\* a/x.jpg and b/x.jpg are both registered with the matcher from the one
\* feature file of x.jpg, and the map has an entry for each of the two paths.
C39_Witness ==
    \E r \in matcher_images, s \in matcher_images :
       /\ SharedFilename(r.task, s.task)
       /\ r.name = "x.jpg"
       /\ r.features = "on_disk"
       /\ s.features = "on_disk"
       /\ image_filepaths[r.task] \in DOMAIN intrinsics_map
       /\ image_filepaths[s.task] \in DOMAIN intrinsics_map
       /\ intrinsics_map[image_filepaths[r.task]] # intrinsics_map[image_filepaths[s.task]]

====
